---- MODULE Spec2Model ----
(***************************************************************************)
(* Watchtower: the change-tracking store (internal/database), the          *)
(* reachability prober (healthcheck) and the asset expansion adapter       *)
(* (discovery), modelled as state machines.                                *)
(*                                                                         *)
(* Specifications that share the module:                                   *)
(*   StoreSpec    concurrent SaveDomain calls on the SQLite store, one     *)
(*                step per SQL statement, each statement able to fail;     *)
(*   CheckSpec    one CheckDomains call: the worker pool, CheckDomain's    *)
(*                HTTPS/HTTP attempts, cancellation of the batch context;  *)
(*   DiscoverSpec one DiscoverDomains call: the goroutine per base domain, *)
(*                the semaphore, the service mutex, the batch deadline;    *)
(*   SlotSpec     DiscoverDomains with one base domain more than           *)
(*                DiscoverSpec and a tool with two kinds of run;           *)
(*   DeadlineSpec DiscoverDomains with a tool that finds a line unless it  *)
(*                is cut short, under weak fairness of the steps of the    *)
(*                calling goroutine alone;                                 *)
(*   ScanSpec     one RunScan: the program list, one goroutine per program,*)
(*                the semaphore of five, the scan deadline;                *)
(*   ProcessSpec  one processProgram, step by step;                        *)
(*   CleanSpec    cleanDomain applied once and twice to a raw string;      *)
(*   TypeSpec     the program type derived from the classification text;   *)
(*   CycleSpec    RunScan called by the two goroutines of main, the calls  *)
(*                of the one overlapping those of the other: the pages of  *)
(*                the listing, a goroutine per program, the store, one     *)
(*                step per SQL statement;                                  *)
(*   NotifySpec   the store under one scanning goroutine and the web       *)
(*                layer marking status changes as notified;                *)
(*   StatsSpec    the store under one scanning goroutine and GetStats,     *)
(*                one step per query;                                      *)
(*   CheckLiveSpec, ScanLiveSpec                                           *)
(*                CheckDomains and RunScan under weak fairness of their    *)
(*                goroutines' steps, for termination.                      *)
(***************************************************************************)
EXTENDS Integers, Sequences, FiniteSets, TLC

VARIABLES
    \* ---- the store (database.go)
    domains,     \* table domains: sequence of rows, row id = position
    changes,     \* table status_changes: sequence of rows, row id = position
    clock,       \* time.Now(), advanced whenever a caller builds a Domain to save
    sd,          \* SaveDomain call frame of every calling goroutine
    batch,       \* history: the store when the running calls began, and the calls
    \* ---- one CheckDomains call (healthcheck)
    cdDomains,   \* the argument domains []string
    cdWorkers,   \* s.workers
    cdPc,        \* position of the calling goroutine
    ctxDone,     \* whether ctx (the batch context) is cancelled or past its deadline
    domainChan,  \* the closed, buffered channel of domains still queued
    resultChan,  \* the buffered channel of results
    resultClosed,\* whether resultChan is closed
    wk,          \* the worker goroutines
    resultMap,   \* resultMap of the collector
    results,     \* the returned slice
    started,     \* history: the domains CheckDomain was called for
    sent,        \* history: the results the workers sent
    \* ---- one DiscoverDomains call (discovery)
    ddDomains,   \* the argument domains []string
    toolPresent, \* whether exec.LookPath("subfinder") succeeds
    toolRuns,    \* how a run of the tool can end, and with what output
    ddPc,        \* position of the calling goroutine
    discDone,    \* whether discoveryCtx is done (deadline, or parent done)
    semaphore,   \* slots of the semaphore channel that are taken
    smu,         \* holder of Service.mu (0: free)
    dw,          \* the goroutines, one per entry of domains
    allSubdomains, \* the accumulator
    ddResult,    \* the returned slice
    ddErr,       \* the returned error
    joinedBy,    \* history: which case of the final select was taken
    \* ---- one RunScan (scheduler)
    rsPc,        \* position of RunScan
    rsRet,       \* what RunScan returned
    fetchErr,    \* the error GetAllPrograms returned
    programs,    \* the list GetAllPrograms returned
    scanSem,     \* slots of RunScan's semaphore that are taken
    scanCtxDone, \* whether the 2 hours of ctx have passed
    pg,          \* the goroutines, one per program, and how processProgram went
    \* ---- one processProgram (scheduler)
    pp,          \* the frame of processProgram
    \* ---- cleanDomain (scheduler)
    cl,          \* a raw string, cleanDomain of it, cleanDomain of that
    \* ---- the program type (scheduler)
    ty,          \* a program's classification text, and the type derived from it
    \* ---- scan cycles (main, scheduler, hackerone client)
    cy,          \* RunScan called again and again: the listing, the store
    \* ---- GetStats (database)
    gs           \* the frame of GetStats: position and the counts read so far

storeVars == <<domains, changes, clock, sd, batch>>

checkVars == <<cdDomains, cdWorkers, cdPc, ctxDone, domainChan, resultChan,
               resultClosed, wk, resultMap, results, started, sent>>

discVars == <<ddDomains, toolPresent, toolRuns, ddPc, discDone, semaphore, smu,
              dw, allSubdomains, ddResult, ddErr, joinedBy>>

scanVars == <<rsPc, rsRet, fetchErr, programs, scanSem, scanCtxDone, pg>>

procVars == <<pp>>

cleanVars == <<cl>>

typeVars == <<ty>>

cycleVars == <<cy>>

statsVars == <<gs>>

nonStoreVars == <<checkVars, discVars, scanVars, procVars, cleanVars,
                 typeVars, cycleVars, statsVars>>

nonCheckVars == <<storeVars, discVars, scanVars, procVars, cleanVars,
                 typeVars, cycleVars, statsVars>>

nonDiscVars == <<storeVars, checkVars, scanVars, procVars, cleanVars,
                 typeVars, cycleVars, statsVars>>

nonScanVars == <<storeVars, checkVars, discVars, procVars, cleanVars,
                 typeVars, cycleVars, statsVars>>

nonProcVars == <<storeVars, checkVars, discVars, scanVars, cleanVars,
                 typeVars, cycleVars, statsVars>>

nonCleanVars == <<storeVars, checkVars, discVars, scanVars, procVars,
                  typeVars, cycleVars, statsVars>>

nonTypeVars == <<storeVars, checkVars, discVars, scanVars, procVars, cleanVars,
                 cycleVars, statsVars>>

nonCycleVars == <<storeVars, checkVars, discVars, scanVars, procVars, cleanVars,
                  typeVars, statsVars>>

nonStatsVars == <<checkVars, discVars, scanVars, procVars, cleanVars, typeVars,
                  cycleVars>>

vars == <<storeVars, checkVars, discVars, scanVars, procVars, cleanVars,
          typeVars, cycleVars, statsVars>>

-----------------------------------------------------------------------------
(* Bounds *)

MaxCalls == 3        \* SaveDomain calls started in one behaviour
MaxDomains == 2      \* length of the list passed to CheckDomains
MaxWorkers == 2      \* largest configured worker count
MaxBase == 3         \* length of the list passed to DiscoverDomains
MaxPrograms == 6     \* length of the list GetAllPrograms returns
MaxPieces == 3       \* pieces a raw string handed to cleanDomain is made of
MaxScope == 2        \* length of the list GetProgramScope returns
MaxWords == 2        \* words a classification text is made of
MaxCycles == 2       \* calls of RunScan in one behaviour
MaxPages == 2        \* pages of the program listing
MaxResults == 2      \* results CheckDomains returns to the scans of one behaviour

Callers == {"g1", "g2"}          \* goroutines that call SaveDomain
\* The (domain, program) pairs observed: one domain string under two programs.
Keys == {<<"a.com", "p1">>, <<"a.com", "p2">>}
Statuses == {"up", "down", "unknown"}

-----------------------------------------------------------------------------
(* Helpers *)

Min(S) == CHOOSE x \in S : \A y \in S : x <= y

Range(s) == {s[i] : i \in 1..Len(s)}


-----------------------------------------------------------------------------
(* The store: internal/database/database.go *)

\* The frame of a goroutine that is not inside SaveDomain and has not called it.
IdleFrame ==
    [pc |-> "idle", domain |-> "", program |-> "", status |-> "", now |-> 0,
     existingID |-> 0, oldStatus |-> "", changedAt |-> 0, ret |-> "none",
     found |-> FALSE, appended |-> FALSE]

\* The frame after SaveDomain returned r: its locals are gone.
Returned(r) == [IdleFrame EXCEPT !.ret = r]

LookupByDomainOnly(ds, d, p) ==
    LET hits == {i \in 1..Len(ds) : ds[i].domain = d}
    IN  IF hits = {} THEN 0 ELSE Min(hits)

\* SELECT id, is_new, status FROM domains WHERE domain = ? AND program = ?
\* QueryRow scans the first matching row; 0 stands for sql.ErrNoRows.
Lookup(ds, d, p) ==
    LET hits == {i \in 1..Len(ds) : ds[i].domain = d /\ ds[i].program = p}
    IN  IF hits = {} THEN 0 ELSE Min(hits)

UniqueOKDropped(ds, d, p) == TRUE

\* UNIQUE(domain, program) of table domains: an INSERT of an existing pair fails.
UniqueOK(ds, d, p) == Lookup(ds, d, p) = 0

\* INSERT INTO domains (...) VALUES (?, ?, ?, ?, ?, 1)
NewDomainRow(f) ==
    [domain |-> f.domain, program |-> f.program, status |-> f.status,
     discoveredAt |-> f.now, lastChecked |-> f.now, isNew |-> TRUE]

UpdatedRowKeepsNew(row, f) ==
    [row EXCEPT !.status = f.status, !.lastChecked = f.now]

UpdatedRowFreshDiscovered(row, f) ==
    [row EXCEPT !.status = f.status, !.discoveredAt = f.now, !.lastChecked = f.now,
                !.isNew = FALSE]

\* UPDATE domains SET status = ?, last_checked = ?, is_new = ? WHERE id = ?
UpdatedRow(row, f) ==
    [row EXCEPT !.status = f.status, !.lastChecked = f.now, !.isNew = FALSE]

\* INSERT INTO status_changes (...) VALUES (?, ?, ?, ?, ?, 0), t the time.Now()
\* that was evaluated as its argument.
NewChangeRow(f, t) ==
    [domain |-> f.domain, program |-> f.program, oldStatus |-> f.oldStatus,
     newStatus |-> f.status, changedAt |-> t, notified |-> FALSE]

\* Goroutines are interchangeable: g2 stands for the one that enters SaveDomain
\* while another call is running.
Before(b, c) == b = "g1" /\ c = "g2"

AllIdle == \A c \in Callers : sd[c].pc = "idle"

NoBatch == [domains |-> <<>>, changes |-> <<>>, calls |-> <<>>, clean |-> TRUE]

\* The history of running calls of which a statement failed, between which the
\* records were marked old, or which are more than two: nothing else is kept.
Spoiled == [NoBatch EXCEPT !.clean = FALSE]

\* The history after a step of goroutine c that leaves its frame f: forgotten once
\* no call is running; `ok` is whether the step's statement succeeded.
BatchAfter(c, f, ok) ==
    IF f.pc = "idle" /\ \A b \in Callers \ {c} : sd[b].pc = "idle"
    THEN NoBatch
    ELSE IF batch.clean /\ ok THEN batch ELSE Spoiled

\* The caller builds &Domain{d, p, st, DiscoveredAt: time.Now(), LastChecked:
\* time.Now()} and calls SaveDomain with it: the time of the observation is fixed
\* here, before any statement of the call.
SaveDomainCall(c, d, p, st) ==
    /\ sd[c].pc = "idle"
    /\ \A b \in Callers : Before(b, c) => sd[b].pc # "idle"
    /\ clock < MaxCalls
    /\ clock' = clock + 1
    /\ LET call == [domain |-> d, program |-> p, status |-> st, now |-> clock + 1]
       IN  /\ sd' = [sd EXCEPT ![c] = [IdleFrame EXCEPT !.pc = "query", !.domain = d,
                                                       !.program = p, !.status = st,
                                                       !.now = clock + 1]]
           /\ batch' = IF AllIdle
                       THEN [domains |-> domains, changes |-> changes,
                             calls |-> <<call>>, clean |-> TRUE]
                       ELSE IF batch.clean /\ Len(batch.calls) < 2
                       THEN [batch EXCEPT !.calls = Append(@, call)]
                       ELSE Spoiled
    /\ UNCHANGED nonStoreVars
    /\ UNCHANGED <<domains, changes>>

\* db.QueryRow(SELECT ...).Scan(...). Every statement of the call can fail
\* (ok = FALSE): database locked, I/O error.
SaveDomainQuery(c) ==
    /\ sd[c].pc = "query"
    /\ LET id == Lookup(domains, sd[c].domain, sd[c].program)
       IN  \E ok \in BOOLEAN :
             LET f == IF ~ok THEN Returned("err")
                      ELSE IF id = 0 THEN [sd[c] EXCEPT !.pc = "insert"]
                      ELSE [sd[c] EXCEPT !.pc = IF domains[id].status # sd[c].status
                                                THEN "stamp" ELSE "update",
                                         !.found = TRUE,
                                         !.existingID = id,
                                         !.oldStatus = domains[id].status]
             IN  /\ sd' = [sd EXCEPT ![c] = f]
                 /\ batch' = BatchAfter(c, f, ok)
    /\ UNCHANGED nonStoreVars
    /\ UNCHANGED <<domains, changes, clock>>

\* The err == sql.ErrNoRows branch: INSERT INTO domains, return err.
SaveDomainInsert(c) ==
    /\ sd[c].pc = "insert"
    /\ \E ok \in BOOLEAN :
         LET r == IF ~ok THEN "err"
                  ELSE IF UniqueOK(domains, sd[c].domain, sd[c].program) THEN "nil"
                  ELSE "err_unique"
         IN  /\ domains' = IF r = "nil" THEN Append(domains, NewDomainRow(sd[c]))
                           ELSE domains
             /\ sd' = [sd EXCEPT ![c] = Returned(r)]
             /\ batch' = BatchAfter(c, Returned(r), ok)
    /\ UNCHANGED nonStoreVars
    /\ UNCHANGED <<changes, clock>>

\* The oldStatus != domain.Status branch: the arguments of db.Exec are evaluated,
\* time.Now() among them, before the statement runs.
SaveDomainStamp(c) ==
    /\ sd[c].pc = "stamp"
    /\ sd' = [sd EXCEPT ![c] = [@ EXCEPT !.pc = "change", !.changedAt = clock]]
    /\ UNCHANGED nonStoreVars
    /\ UNCHANGED <<domains, changes, clock, batch>>

\* INSERT INTO status_changes with the arguments evaluated before, its error
\* dropped (_ = err).
SaveDomainChange(c) ==
    /\ sd[c].pc = "change"
    /\ \E ok \in BOOLEAN :
         LET f == [sd[c] EXCEPT !.pc = "update", !.appended = ok]
         IN  /\ changes' = IF ok
                           THEN Append(changes, NewChangeRow(sd[c], sd[c].changedAt))
                           ELSE changes
             /\ sd' = [sd EXCEPT ![c] = f]
             /\ batch' = BatchAfter(c, f, ok)
    /\ UNCHANGED nonStoreVars
    /\ UNCHANGED <<domains, clock>>

\* UPDATE domains SET status, last_checked, is_new WHERE id = existingID; return err.
SaveDomainUpdate(c) ==
    /\ sd[c].pc = "update"
    /\ \E ok \in BOOLEAN :
         LET r == IF ok THEN "nil" ELSE "err"
         IN  /\ domains' = IF ok
                           THEN [domains EXCEPT ![sd[c].existingID] = UpdatedRow(@, sd[c])]
                           ELSE domains
             /\ sd' = [sd EXCEPT ![c] = Returned(r)]
             /\ batch' = BatchAfter(c, Returned(r), ok)
    /\ UNCHANGED nonStoreVars
    /\ UNCHANGED <<changes, clock>>

\* UPDATE domains SET is_new = 0 WHERE is_new = 1
MarkDomainsAsOld ==
    /\ \E i \in 1..Len(domains) : domains[i].isNew
    /\ domains' = [i \in 1..Len(domains) |-> [domains[i] EXCEPT !.isNew = FALSE]]
    /\ batch' = IF AllIdle THEN batch ELSE Spoiled
    /\ UNCHANGED nonStoreVars
    /\ UNCHANGED <<changes, clock, sd>>

MarkNotifiedAll(chs, id) == [i \in 1..Len(chs) |-> [chs[i] EXCEPT !.notified = TRUE]]

\* UPDATE status_changes SET notified = 1 WHERE id = ?
MarkNotified(chs, id) ==
    [i \in 1..Len(chs) |-> IF i = id THEN [chs[i] EXCEPT !.notified = TRUE] ELSE chs[i]]

\* MarkStatusChangeNotified(id), called by the web layer for any id at any time;
\* the statement can fail.
MarkStatusChangeNotified(id) ==
    /\ \E ok \in BOOLEAN : changes' = IF ok THEN MarkNotified(changes, id) ELSE changes
    /\ UNCHANGED nonStoreVars
    /\ UNCHANGED <<domains, clock, sd, batch>>

\* The frame of a GetStats that has not been called, or that returned r.
IdleStats(r) == [pc |-> "idle", total |-> 0, new |-> 0, up |-> 0, down |-> 0, ret |-> r]

\* SELECT COUNT(*) FROM domains WHERE is_new = 1
CountNew(ds) == Cardinality({i \in 1..Len(ds) : ds[i].isNew})

\* SELECT COUNT(*) FROM domains WHERE status = st
CountStatus(ds, st) == Cardinality({i \in 1..Len(ds) : ds[i].status = st})

\* GetStats: the web layer calls it at any time.
GetStatsCall ==
    /\ gs.pc = "idle"
    /\ gs' = [IdleStats("none") EXCEPT !.pc = "total"]
    /\ UNCHANGED nonStatsVars
    /\ UNCHANGED storeVars

\* One QueryRow(...).Scan(...) of GetStats, a statement of its own: total_domains,
\* new_domains, up_domains, down_domains, in that order; on an error GetStats
\* returns nil, err.
GetStatsQuery ==
    /\ gs.pc \in {"total", "new", "up", "down"}
    /\ \E ok \in BOOLEAN :
         gs' = IF ~ok THEN IdleStats("err")
               ELSE IF gs.pc = "total"
               THEN [gs EXCEPT !.total = Len(domains), !.pc = "new"]
               ELSE IF gs.pc = "new"
               THEN [gs EXCEPT !.new = CountNew(domains),
                               !.pc = "up"]
               ELSE IF gs.pc = "up"
               THEN [gs EXCEPT !.up = CountStatus(domains, "up"),
                               !.pc = "down"]
               ELSE [gs EXCEPT !.down = CountStatus(domains, "down"),
                               !.pc = "programs"]
    /\ UNCHANGED nonStatsVars
    /\ UNCHANGED storeVars

\* SELECT COUNT(*) FROM programs; return stats, nil. The stats stay in the frame
\* for the caller.
GetStatsReturn ==
    /\ gs.pc = "programs"
    /\ \E ok \in BOOLEAN :
         gs' = IF ok THEN [gs EXCEPT !.pc = "idle", !.ret = "nil"] ELSE IdleStats("err")
    /\ UNCHANGED nonStatsVars
    /\ UNCHANGED storeVars

StoreIdle ==
    /\ gs = IdleStats("none")
    /\ domains = <<>>
    /\ changes = <<>>
    /\ clock = 0
    /\ sd = [c \in Callers |-> IdleFrame]
    /\ batch = NoBatch

StoreNext ==
    \/ \E c \in Callers, k \in Keys, st \in Statuses :
         SaveDomainCall(c, k[1], k[2], st)
    \/ \E c \in Callers : SaveDomainQuery(c)
    \/ \E c \in Callers : SaveDomainInsert(c)
    \/ \E c \in Callers : SaveDomainStamp(c)
    \/ \E c \in Callers : SaveDomainChange(c)
    \/ \E c \in Callers : SaveDomainUpdate(c)
    \/ MarkDomainsAsOld

\* SaveDomain as one step on a store st = [domains, changes].
SerialSaveDomain(st, call) ==
    LET id == Lookup(st.domains, call.domain, call.program)
        f  == [IdleFrame EXCEPT !.domain = call.domain, !.program = call.program,
                                !.status = call.status, !.now = call.now,
                                !.oldStatus = IF id = 0 THEN ""
                                              ELSE st.domains[id].status]
    IN  IF id = 0
        THEN [domains |-> Append(st.domains, NewDomainRow(f)), changes |-> st.changes]
        ELSE [domains |-> [st.domains EXCEPT ![id] = UpdatedRow(@, f)],
              changes |-> IF f.oldStatus # f.status
                          THEN Append(st.changes, NewChangeRow(f, call.now))
                          ELSE st.changes]

\* The store with one scanning goroutine and the web layer reading the counts.
StatsNext ==
    \/ \E k \in Keys, st \in Statuses : SaveDomainCall("g1", k[1], k[2], st)
    \/ SaveDomainQuery("g1")
    \/ SaveDomainInsert("g1")
    \/ SaveDomainStamp("g1")
    \/ SaveDomainChange("g1")
    \/ SaveDomainUpdate("g1")
    \/ GetStatsCall
    \/ GetStatsQuery
    \/ GetStatsReturn

\* The store with one scanning goroutine and the web layer.
NotifyNext ==
    \/ \E k \in Keys, st \in Statuses : SaveDomainCall("g1", k[1], k[2], st)
    \/ SaveDomainQuery("g1")
    \/ SaveDomainInsert("g1")
    \/ SaveDomainStamp("g1")
    \/ SaveDomainChange("g1")
    \/ SaveDomainUpdate("g1")
    \/ \E id \in 1..MaxCalls : MarkStatusChangeNotified(id)

-----------------------------------------------------------------------------
(* The prober: healthcheck.Service (src/unnamed/part_002) *)

ProbeNames == {"a.com", "b.com"}

\* What one GET attempt gives: no response (connection, TLS or context error,
\* timeout, request not built) or the status code of the response.
NoResponse == 0
NotAttempted == -1
HttpOutcomes == {NoResponse, 200, 302, 404, 503}

StatusLimit == 500

RespondsUpNoErrCheck(o) == o < StatusLimit

RespondsUpBelow400(o) == o # NoResponse /\ o < 400

\* err == nil && resp.StatusCode < 500
RespondsUp(o) == o # NoResponse /\ o < StatusLimit

\* CheckResult
Result(d, st) == [Domain |-> d, Status |-> st]

WorkerIds == 1..MaxWorkers

AbsentWorker ==
    [pc |-> "absent", domain |-> "", https |-> NotAttempted, http |-> NotAttempted,
     status |-> ""]

NoCheck ==
    /\ cdDomains = <<>>
    /\ cdWorkers = 0
    /\ cdPc = "none"
    /\ ctxDone = FALSE
    /\ domainChan = <<>>
    /\ resultChan = <<>>
    /\ resultClosed = FALSE
    /\ wk = [w \in WorkerIds |-> AbsentWorker]
    /\ resultMap = <<>>
    /\ results = <<>>
    /\ started = {}
    /\ sent = {}

SpawnedAll(w, n) == TRUE

\* for i := 0; i < s.workers; i++ { go func() ... }: worker w of the pool exists.
Spawned(w, n) == w <= n

\* CheckDomains up to the start of the workers: the channels are made with
\* capacity len(domains), the domains queued, domainChan closed, and s.workers
\* goroutines started (none when s.workers <= 0).
CheckDomainsCall ==
    /\ cdPc = "call"
    /\ cdPc' = "collect"
    /\ domainChan' = cdDomains
    /\ wk' = [w \in WorkerIds |->
                IF Spawned(w, cdWorkers) THEN [AbsentWorker EXCEPT !.pc = "recv"]
                ELSE AbsentWorker]
    /\ UNCHANGED nonCheckVars
    /\ UNCHANGED <<cdDomains, cdWorkers, ctxDone, resultChan, resultClosed,
                   resultMap, results, started, sent>>

SelectDoneNever(done) == FALSE

\* select { case <-ctx.Done(): ...; default: ... }: the first case is taken when
\* ctx is done, default only when it is not.
SelectDone(done) == done

\* for domain := range domainChan: worker w receives the head of the queue. The
\* select that follows is a step of its own; other goroutines and the
\* cancellation of ctx come in between.
WorkerRecv(w) ==
    /\ wk[w].pc = "recv"
    /\ domainChan # <<>>
    /\ domainChan' = Tail(domainChan)
    /\ wk' = [wk EXCEPT ![w] = [AbsentWorker EXCEPT !.pc = "select",
                                                   !.domain = Head(domainChan)]]
    /\ UNCHANGED nonCheckVars
    /\ UNCHANGED <<cdDomains, cdWorkers, cdPc, ctxDone, resultChan, resultClosed,
                   resultMap, results, started, sent>>

\* select { case <-ctx.Done(): return; default: ... }: with ctx done the worker
\* returns and the domain it received is dropped, otherwise it calls CheckDomain.
WorkerSelect(w) ==
    /\ wk[w].pc = "select"
    /\ IF SelectDone(ctxDone)
       THEN /\ wk' = [wk EXCEPT ![w] = [AbsentWorker EXCEPT !.pc = "exited"]]
            /\ started' = started
       ELSE /\ wk' = [wk EXCEPT ![w].pc = "https"]
            /\ started' = started \cup {wk[w].domain}
    /\ UNCHANGED nonCheckVars
    /\ UNCHANGED <<cdDomains, cdWorkers, cdPc, ctxDone, domainChan, resultChan,
                   resultClosed, resultMap, results, sent>>

\* The range loop ends on the closed, drained channel; wg.Done().
WorkerExit(w) ==
    /\ wk[w].pc = "recv"
    /\ domainChan = <<>>
    /\ wk' = [wk EXCEPT ![w] = [AbsentWorker EXCEPT !.pc = "exited"]]
    /\ UNCHANGED nonCheckVars
    /\ UNCHANGED <<cdDomains, cdWorkers, cdPc, ctxDone, domainChan, resultChan,
                   resultClosed, resultMap, results, started, sent>>

\* What s.client.Do can give: with the context done, only an error.
Attempts == IF ctxDone THEN {NoResponse} ELSE HttpOutcomes

\* CheckDomain, first url: GET https://domain.
CheckDomainHttps(w) ==
    /\ wk[w].pc = "https"
    /\ \E o \in Attempts :
         wk' = [wk EXCEPT ![w].https = o,
                          ![w].pc = IF RespondsUp(o) THEN "send" ELSE "http",
                          ![w].status = IF RespondsUp(o) THEN "up" ELSE ""]
    /\ UNCHANGED nonCheckVars
    /\ UNCHANGED <<cdDomains, cdWorkers, cdPc, ctxDone, domainChan, resultChan,
                   resultClosed, resultMap, results, started, sent>>

\* CheckDomain, second url: GET http://domain; after the loop, "down".
CheckDomainHttp(w) ==
    /\ wk[w].pc = "http"
    /\ \E o \in Attempts :
         wk' = [wk EXCEPT ![w].http = o,
                          ![w].pc = "send",
                          ![w].status = IF RespondsUp(o) THEN "up" ELSE "down"]
    /\ UNCHANGED nonCheckVars
    /\ UNCHANGED <<cdDomains, cdWorkers, cdPc, ctxDone, domainChan, resultChan,
                   resultClosed, resultMap, results, started, sent>>

ResultCapOneLess(ds) == Len(ds) - 1

\* resultChan := make(chan CheckResult, len(domains))
ResultCap(ds) == Len(ds)

\* resultChan <- result: goes through while the channel has room.
WorkerSend(w) ==
    /\ wk[w].pc = "send"
    /\ Len(resultChan) < ResultCap(cdDomains)
    /\ resultChan' = Append(resultChan, Result(wk[w].domain, wk[w].status))
    /\ sent' = sent \cup {Result(wk[w].domain, wk[w].status)}
    /\ wk' = [wk EXCEPT ![w] = [AbsentWorker EXCEPT !.pc = "recv"]]
    /\ UNCHANGED nonCheckVars
    /\ UNCHANGED <<cdDomains, cdWorkers, cdPc, ctxDone, domainChan, resultClosed,
                   resultMap, results, started>>

\* The counter of wg: workers that have not returned.
WgCount == Cardinality({w \in WorkerIds : wk[w].pc \notin {"absent", "exited"}})

\* go func() { wg.Wait(); close(resultChan) }()
CloseResults ==
    /\ cdPc = "collect"
    /\ ~resultClosed
    /\ WgCount = 0
    /\ resultClosed' = TRUE
    /\ UNCHANGED nonCheckVars
    /\ UNCHANGED <<cdDomains, cdWorkers, cdPc, ctxDone, domainChan, resultChan,
                   wk, resultMap, results, started, sent>>

\* m[k] = v of a Go map held as a function.
MapPut(m, k, v) == [x \in DOMAIN m \cup {k} |-> IF x = k THEN v ELSE m[x]]

\* for result := range resultChan { resultMap[result.Domain] = result }
Collect ==
    /\ cdPc = "collect"
    /\ resultChan # <<>>
    /\ resultMap' = MapPut(resultMap, Head(resultChan).Domain, Head(resultChan))
    /\ resultChan' = Tail(resultChan)
    /\ UNCHANGED nonCheckVars
    /\ UNCHANGED <<cdDomains, cdWorkers, cdPc, ctxDone, domainChan, resultClosed,
                   wk, results, started, sent>>

ResultForDown(rm, d) == IF d \in DOMAIN rm THEN rm[d] ELSE Result(d, "down")

\* if result, ok := resultMap[domain]; ok {...} else {Status: "unknown"}
ResultFor(rm, d) == IF d \in DOMAIN rm THEN rm[d] ELSE Result(d, "unknown")

BuildResultsInMapOnly(ds, rm) ==
    LET F[i \in 0..Len(ds)] ==
          IF i = 0 THEN <<>>
          ELSE IF ds[i] \in DOMAIN rm THEN Append(F[i - 1], rm[ds[i]]) ELSE F[i - 1]
    IN  F[Len(ds)]

\* The "Preserve order" loop: results[index] for every index of domains.
BuildResults(ds, rm) == [i \in 1..Len(ds) |-> ResultFor(rm, ds[i])]

\* The range over resultChan ends (closed and drained); build results, return.
CheckDomainsReturn ==
    /\ cdPc = "collect"
    /\ resultClosed
    /\ resultChan = <<>>
    /\ results' = BuildResults(cdDomains, resultMap)
    /\ cdPc' = "done"
    /\ UNCHANGED nonCheckVars
    /\ UNCHANGED <<cdDomains, cdWorkers, ctxDone, domainChan, resultChan,
                   resultClosed, wk, resultMap, started, sent>>

\* ctx is cancelled or its deadline passes, at any moment of the call.
CancelBatch ==
    /\ cdPc \in {"call", "collect"}
    /\ ~ctxDone
    /\ ctxDone' = TRUE
    /\ UNCHANGED nonCheckVars
    /\ UNCHANGED <<cdDomains, cdWorkers, cdPc, domainChan, resultChan,
                   resultClosed, wk, resultMap, results, started, sent>>

\* Lists of at most n probe names.
Lists(n) == UNION {[1..k -> ProbeNames] : k \in 0..n}

CheckInit ==
    /\ cdDomains \in Lists(MaxDomains)
    /\ cdWorkers \in -1..MaxWorkers
    /\ cdPc = "call"
    /\ ctxDone = FALSE
    /\ domainChan = <<>>
    /\ resultChan = <<>>
    /\ resultClosed = FALSE
    /\ wk = [w \in WorkerIds |-> AbsentWorker]
    /\ resultMap = <<>>
    /\ results = <<>>
    /\ started = {}
    /\ sent = {}

CheckNext ==
    \/ CheckDomainsCall
    \/ \E w \in WorkerIds : WorkerRecv(w)
    \/ \E w \in WorkerIds : WorkerSelect(w)
    \/ \E w \in WorkerIds : WorkerExit(w)
    \/ \E w \in WorkerIds : CheckDomainHttps(w)
    \/ \E w \in WorkerIds : CheckDomainHttp(w)
    \/ \E w \in WorkerIds : WorkerSend(w)
    \/ CloseResults
    \/ Collect
    \/ CheckDomainsReturn
    \/ CancelBatch

\* The steps of the goroutines of CheckDomains: all but the cancellation, which
\* comes from outside.
CheckProgress ==
    \/ CheckDomainsCall
    \/ \E w \in WorkerIds : WorkerRecv(w)
    \/ \E w \in WorkerIds : WorkerSelect(w)
    \/ \E w \in WorkerIds : WorkerExit(w)
    \/ \E w \in WorkerIds : CheckDomainHttps(w)
    \/ \E w \in WorkerIds : CheckDomainHttp(w)
    \/ \E w \in WorkerIds : WorkerSend(w)
    \/ CloseResults
    \/ Collect
    \/ CheckDomainsReturn

-----------------------------------------------------------------------------
(* The expansion adapter: discovery.Service (src/unnamed/part_003) *)

\* A string is a sequence of characters; the output of the tool is a sequence of
\* lines (no line at all: no output).
\* The base domains are only handed to the tool, whose run is free: the first
\* names of this list stand for any list of that length.
BaseList == <<"a.com", "b.com", "c.com", "d.com", "e.com", "f.com">>

\* A character is a Unicode code point (strings.TrimSpace and strings.ToUpper
\* work on the runes of the string); one that TLA+ has no way to write is written
\* by its number, as in "U+00A0".
\* unicode.IsSpace: the white space of Latin-1 ('\t', '\n', '\v', '\f', '\r',
\* ' ', U+0085, U+00A0) and the code points with the property White_Space.
WhiteSpace ==
    {"\t", "\n", "U+000B", "\f", "\r", " ", "U+0085", "U+00A0",
     "U+1680", "U+2000", "U+2001", "U+2002", "U+2003", "U+2004", "U+2005",
     "U+2006", "U+2007", "U+2008", "U+2009", "U+200A", "U+2028", "U+2029",
     "U+202F", "U+205F", "U+3000"}

IsSpace(ch) == ch \in WhiteSpace

RECURSIVE TrimLeft(_)
TrimLeft(s) == IF s # <<>> /\ IsSpace(Head(s)) THEN TrimLeft(Tail(s)) ELSE s

RECURSIVE TrimRight(_)
TrimRight(s) ==
    IF s # <<>> /\ IsSpace(s[Len(s)]) THEN TrimRight(SubSeq(s, 1, Len(s) - 1)) ELSE s

\* strings.TrimSpace
TrimSpace(s) == TrimRight(TrimLeft(s))

\* The scanner loop: the trimmed lines that are not empty, in order.
ParseLines(out) ==
    LET F[i \in 0..Len(out)] ==
          IF i = 0 THEN <<>>
          ELSE IF TrimSpace(out[i]) # <<>> THEN Append(F[i - 1], TrimSpace(out[i]))
               ELSE F[i - 1]
    IN  F[Len(out)]

\* How one run of the tool ends, and what it wrote to stdout:
\*   ok          exit status 0
\*   exit_error  non-zero exit status, the 30 s of cmdCtx not used up
\*   timeout     the command was killed by cmdCtx (30 s, or discoveryCtx done)
\*   scan_error  exit status 0, a line too long for bufio.Scanner
LineX == <<"x">>
LineY == <<"y">>
LinePaddedX == <<"\t", "x", " ", "\r">>
LineBlank == <<"\r", "U+00A0">>
ToolRuns ==
    {[kind |-> "ok", output |-> <<>>],
     [kind |-> "ok", output |-> <<LineX>>],
     [kind |-> "ok", output |-> <<LinePaddedX, LineBlank, LineY>>],
     [kind |-> "exit_error", output |-> <<>>],
     [kind |-> "exit_error", output |-> <<LineY>>],
     [kind |-> "timeout", output |-> <<LineX>>],
     [kind |-> "scan_error", output |-> <<LineX>>]}

\* The run of a command started or still running when discoveryCtx is done.
KilledRun == [kind |-> "timeout", output |-> <<>>]

\* DiscoverSubdomains between s.mu.Lock() and the deferred s.mu.Unlock().
DiscoverSubdomains(present, run) ==
    IF ~present
    THEN [subdomains |-> <<>>, err |-> "subfinder not found in PATH"]
    ELSE IF run.kind = "timeout"
    THEN [subdomains |-> <<>>, err |-> "subfinder timeout"]
    ELSE IF run.kind = "exit_error" /\ run.output = <<>>
    THEN [subdomains |-> <<>>, err |-> "subfinder failed"]
    ELSE IF run.kind = "scan_error"
    THEN [subdomains |-> <<>>, err |-> "scanner error"]
    ELSE [subdomains |-> ParseLines(run.output), err |-> "nil"]

\* The "Deduplicate" loop: first occurrences, in order.
Dedupe(s) ==
    LET F[i \in 0..Len(s)] ==
          IF i = 0 THEN <<>>
          ELSE IF s[i] \in Range(F[i - 1]) THEN F[i - 1] ELSE Append(F[i - 1], s[i])
    IN  F[Len(s)]

SemSlots == 3

\* SlotSpec passes one base domain more than DiscoverSpec.
SlotBase == MaxBase + 1

BaseIds == 1..SlotBase

NoGoroutine ==
    [pc |-> "absent", run |-> [kind |-> "none", output |-> <<>>],
     subdomains |-> <<>>]

NoDiscover ==
    /\ ddDomains = <<>>
    /\ toolPresent = FALSE
    /\ toolRuns = {}
    /\ ddPc = "none"
    /\ discDone = FALSE
    /\ semaphore = 0
    /\ smu = 0
    /\ dw = [i \in BaseIds |-> NoGoroutine]
    /\ allSubdomains = <<>>
    /\ ddResult = <<>>
    /\ ddErr = "none"
    /\ joinedBy = "none"

\* DiscoverDomains up to the final select: without the tool it returns
\* ([]string{}, nil); otherwise it starts one goroutine per entry of domains (the
\* break in the loop's select leaves the select only, never the loop).
DiscoverDomainsCall ==
    /\ ddPc = "call"
    /\ IF toolPresent
       THEN /\ ddPc' = "wait"
            /\ dw' = [i \in BaseIds |->
                        IF i <= Len(ddDomains) THEN [NoGoroutine EXCEPT !.pc = "sem"]
                        ELSE NoGoroutine]
            /\ UNCHANGED <<ddErr, joinedBy>>
       ELSE /\ ddPc' = "returned"
            /\ ddErr' = "nil"
            /\ joinedBy' = "no tool"
            /\ dw' = dw
    /\ UNCHANGED nonDiscVars
    /\ UNCHANGED <<ddDomains, toolPresent, toolRuns, discDone, semaphore, smu,
                   allSubdomains, ddResult>>

SlotFreeAlways(n) == TRUE

\* A send on the semaphore channel goes through while it holds fewer than 3.
SlotFree(n) == n < SemSlots

\* semaphore <- struct{}{}
AcquireSlot(i) ==
    /\ dw[i].pc = "sem"
    /\ SlotFree(semaphore)
    /\ semaphore' = semaphore + 1
    /\ dw' = [dw EXCEPT ![i].pc = "lock"]
    /\ UNCHANGED nonDiscVars
    /\ UNCHANGED <<ddDomains, toolPresent, toolRuns, ddPc, discDone, smu, allSubdomains,
                   ddResult, ddErr, joinedBy>>

\* DiscoverSubdomains: s.mu.Lock()
LockService(i) ==
    /\ dw[i].pc = "lock"
    /\ smu = 0
    /\ smu' = i
    /\ dw' = [dw EXCEPT ![i].pc = "run"]
    /\ UNCHANGED nonDiscVars
    /\ UNCHANGED <<ddDomains, toolPresent, toolRuns, ddPc, discDone, semaphore,
                   allSubdomains, ddResult, ddErr, joinedBy>>

RunsUnderIgnoringDeadline(done, runs) == runs

\* cmdCtx derives from discoveryCtx: with discoveryCtx done the command is not
\* started, or is killed, and cmdCtx.Err() is DeadlineExceeded.
RunsUnder(done, runs) == IF done THEN {KilledRun} ELSE runs

\* The rest of DiscoverSubdomains (LookPath, the command, the scanner) up to its
\* return, where the deferred s.mu.Unlock() runs. The goroutine still holds its
\* slot: on an error, or with nothing found, it is about to return; otherwise it
\* goes on to append.
RunTool(i) ==
    /\ dw[i].pc = "run"
    /\ smu' = 0
    /\ \E run \in RunsUnder(discDone, toolRuns) :
         LET r == DiscoverSubdomains(toolPresent, run)
             goes == r.err = "nil" /\ Len(r.subdomains) > 0
         IN  dw' = [dw EXCEPT ![i] = [pc |-> IF goes THEN "append" ELSE "release",
                                      run |-> run,
                                      subdomains |-> IF goes THEN r.subdomains
                                                     ELSE <<>>]]
    /\ UNCHANGED nonDiscVars
    /\ UNCHANGED <<ddDomains, toolPresent, toolRuns, ddPc, discDone, semaphore,
                   allSubdomains, ddResult, ddErr, joinedBy>>

\* mu.Lock(); allSubdomains = append(allSubdomains, subdomains...); mu.Unlock()
AppendSubdomains(i) ==
    /\ dw[i].pc = "append"
    /\ allSubdomains' = allSubdomains \o dw[i].subdomains
    /\ dw' = [dw EXCEPT ![i].pc = "release"]
    /\ UNCHANGED nonDiscVars
    /\ UNCHANGED <<ddDomains, toolPresent, toolRuns, ddPc, discDone, semaphore, smu,
                   ddResult, ddErr, joinedBy>>

\* The goroutine returns: the deferred <-semaphore gives the slot back.
ReleaseSlot(i) ==
    /\ dw[i].pc = "release"
    /\ semaphore' = semaphore - 1
    /\ dw' = [dw EXCEPT ![i].pc = "exit"]
    /\ UNCHANGED nonDiscVars
    /\ UNCHANGED <<ddDomains, toolPresent, toolRuns, ddPc, discDone, smu, allSubdomains,
                   ddResult, ddErr, joinedBy>>

\* The deferred wg.Done(), the last thing the goroutine does.
GoroutineDone(i) ==
    /\ dw[i].pc = "exit"
    /\ dw' = [dw EXCEPT ![i].pc = "done"]
    /\ UNCHANGED nonDiscVars
    /\ UNCHANGED <<ddDomains, toolPresent, toolRuns, ddPc, discDone, semaphore, smu,
                   allSubdomains, ddResult, ddErr, joinedBy>>

\* wg.Wait() has returned and done is closed.
AllDone == \A i \in BaseIds : dw[i].pc \in {"absent", "done"}

\* The final select, case <-done.
JoinDone ==
    /\ ddPc = "wait"
    /\ AllDone
    /\ ddPc' = "dedupe"
    /\ joinedBy' = "done"
    /\ UNCHANGED nonDiscVars
    /\ UNCHANGED <<ddDomains, toolPresent, toolRuns, discDone, semaphore, smu, dw,
                   allSubdomains, ddResult, ddErr>>

\* The final select, case <-discoveryCtx.Done(): "return what we have so far".
\* The goroutines still running are not waited for.
JoinDeadline ==
    /\ ddPc = "wait"
    /\ discDone
    /\ ddPc' = "dedupe"
    /\ joinedBy' = "deadline"
    /\ UNCHANGED nonDiscVars
    /\ UNCHANGED <<ddDomains, toolPresent, toolRuns, discDone, semaphore, smu, dw,
                   allSubdomains, ddResult, ddErr>>

\* What "range allSubdomains" can see. The read does not take mu: next to a
\* goroutine that is appending it sees the slice before the append, after it, or
\* with a part of the appended elements.
RacyReads ==
    {allSubdomains} \cup
    UNION {{allSubdomains \o SubSeq(dw[i].subdomains, 1, k) :
              k \in 1..Len(dw[i].subdomains)} :
           i \in {n \in BaseIds : dw[n].pc = "append"}}

\* The "Deduplicate" loop and return result, nil.
DedupeReturn ==
    /\ ddPc = "dedupe"
    /\ \E seen \in RacyReads : ddResult' = Dedupe(seen)
    /\ ddErr' = "nil"
    /\ ddPc' = "returned"
    /\ UNCHANGED nonDiscVars
    /\ UNCHANGED <<ddDomains, toolPresent, toolRuns, discDone, semaphore, smu, dw,
                   allSubdomains, joinedBy>>

\* The 5 minutes of discoveryCtx pass, or the context of the scan is done.
BatchDeadline ==
    /\ ddPc \in {"call", "wait"}
    /\ ~discDone
    /\ discDone' = TRUE
    /\ UNCHANGED nonDiscVars
    /\ UNCHANGED <<ddDomains, toolPresent, toolRuns, ddPc, semaphore, smu, dw,
                   allSubdomains, ddResult, ddErr, joinedBy>>

BaseLists(n) == {SubSeq(BaseList, 1, k) : k \in 0..n}

DiscoverInit ==
    /\ ddDomains \in BaseLists(MaxBase)
    /\ toolPresent \in BOOLEAN
    /\ toolRuns = ToolRuns
    /\ ddPc = "call"
    /\ discDone = FALSE
    /\ semaphore = 0
    /\ smu = 0
    /\ dw = [i \in BaseIds |-> NoGoroutine]
    /\ allSubdomains = <<>>
    /\ ddResult = <<>>
    /\ ddErr = "none"
    /\ joinedBy = "none"

\* A tool whose runs end in one of two ways: a line found, or a failure.
SlotRuns ==
    {[kind |-> "ok", output |-> <<LineX>>],
     [kind |-> "exit_error", output |-> <<>>]}

SlotInit ==
    /\ ddDomains \in BaseLists(SlotBase)
    /\ toolPresent = TRUE
    /\ toolRuns = SlotRuns
    /\ ddPc = "call"
    /\ discDone = FALSE
    /\ semaphore = 0
    /\ smu = 0
    /\ dw = [i \in BaseIds |-> NoGoroutine]
    /\ allSubdomains = <<>>
    /\ ddResult = <<>>
    /\ ddErr = "none"
    /\ joinedBy = "none"

\* A tool that finds a line for every domain unless its run is cut short.
DeadlineRuns ==
    {[kind |-> "ok", output |-> <<LineX>>],
     [kind |-> "ok", output |-> <<LineY>>]}

DeadlineInit ==
    /\ ddDomains \in BaseLists(MaxBase)
    /\ toolPresent = TRUE
    /\ toolRuns = DeadlineRuns
    /\ ddPc = "call"
    /\ discDone = FALSE
    /\ semaphore = 0
    /\ smu = 0
    /\ dw = [i \in BaseIds |-> NoGoroutine]
    /\ allSubdomains = <<>>
    /\ ddResult = <<>>
    /\ ddErr = "none"
    /\ joinedBy = "none"

\* The steps of the goroutine that called DiscoverDomains, from the final select
\* on: a select with a ready case is taken, the loop over the slice ends.
CallerReturns ==
    \/ JoinDone
    \/ JoinDeadline
    \/ DedupeReturn

DiscoverNext ==
    \/ DiscoverDomainsCall
    \/ \E i \in BaseIds : AcquireSlot(i)
    \/ \E i \in BaseIds : LockService(i)
    \/ \E i \in BaseIds : RunTool(i)
    \/ \E i \in BaseIds : AppendSubdomains(i)
    \/ \E i \in BaseIds : ReleaseSlot(i)
    \/ \E i \in BaseIds : GoroutineDone(i)
    \/ JoinDone
    \/ JoinDeadline
    \/ DedupeReturn
    \/ BatchDeadline

-----------------------------------------------------------------------------
(* The scan: Scheduler.RunScan (src/unnamed/part_001) *)

\* The programs the registry lists, in order: every other one has no domain
\* attribute. A handle is held as the program's position in the list.
ProgramAt(i) == [handle |-> i, domain |-> IF i % 2 = 1 THEN <<"a">> ELSE <<>>]

ProgramLists(n) == {[i \in 1..k |-> ProgramAt(i)] : k \in 0..n}

\* What GetAllPrograms returns: the list, or an error (a 401, any other failure).
FetchResults ==
    {[err |-> e, programs |-> <<>>] : e \in {"401", "error"}}
    \cup {[err |-> "nil", programs |-> ps] : ps \in ProgramLists(MaxPrograms)}

ScanSlots == 5

ProgramIds == 1..MaxPrograms

\* How GetProgramScope can end: "auth" an error for a 401, "empty" no scope data
\* (an empty list and no error), "found" a list of identifiers.
ScopeOutcomes == {"auth", "empty", "found"}

NoProgram ==
    [pc |-> "absent", saved |-> "none", scope |-> "none", fate |-> "none",
     ret |-> "none"]

\* processProgram by its outcome: it returns the error of SaveProgram; an error
\* of GetProgramScope is logged only, and with no scope domain it falls back on
\* the program's domain attribute or, without one, returns nil at once; every
\* later failure (expansion, probe, SaveDomain) is logged or absorbed.
ProcessOutcome(program, saveOk, scope) ==
    IF ~saveOk
    THEN [pc |-> "exit", saved |-> "failed", scope |-> "none",
          fate |-> "save_failed", ret |-> "err"]
    ELSE IF scope = "found"
    THEN [pc |-> "exit", saved |-> "ok", scope |-> scope,
          fate |-> "completed", ret |-> "nil"]
    ELSE IF program.domain # <<>>
    THEN [pc |-> "exit", saved |-> "ok", scope |-> scope,
          fate |-> "fallback", ret |-> "nil"]
    ELSE [pc |-> "exit", saved |-> "ok", scope |-> scope,
          fate |-> "skipped", ret |-> "nil"]

NoScan ==
    /\ rsPc = "none"
    /\ rsRet = "none"
    /\ fetchErr = "none"
    /\ programs = <<>>
    /\ scanSem = 0
    /\ scanCtxDone = FALSE
    /\ pg = [i \in ProgramIds |-> NoProgram]

ScanInit ==
    /\ rsPc = "call"
    /\ rsRet = "none"
    /\ fetchErr = "none"
    /\ programs = <<>>
    /\ scanSem = 0
    /\ scanCtxDone = FALSE
    /\ pg = [i \in ProgramIds |-> NoProgram]

\* RunScan up to wg.Wait(): GetAllPrograms; on its error RunScan returns it
\* wrapped; otherwise one goroutine is started per program.
RunScanFetch ==
    /\ rsPc = "call"
    /\ \E r \in FetchResults :
         /\ fetchErr' = r.err
         /\ IF r.err # "nil"
            THEN /\ rsPc' = "returned"
                 /\ rsRet' = "failed to fetch programs"
                 /\ UNCHANGED <<programs, pg>>
            ELSE /\ rsPc' = "wait"
                 /\ programs' = r.programs
                 /\ pg' = [i \in ProgramIds |->
                             IF i <= Len(r.programs)
                             THEN [NoProgram EXCEPT !.pc = "sem"] ELSE NoProgram]
                 /\ rsRet' = rsRet
    /\ UNCHANGED nonScanVars
    /\ UNCHANGED <<scanSem, scanCtxDone>>

ScanSlotFreeAlways(n) == TRUE

\* A send on the semaphore channel goes through while it holds fewer than 5.
ScanSlotFree(n) == n < ScanSlots

\* semaphore <- struct{}{} of the goroutine of program i.
ScanAcquire(i) ==
    /\ pg[i].pc = "sem"
    /\ ScanSlotFree(scanSem)
    /\ scanSem' = scanSem + 1
    /\ pg' = [pg EXCEPT ![i].pc = "running"]
    /\ UNCHANGED nonScanVars
    /\ UNCHANGED <<rsPc, rsRet, fetchErr, programs, scanCtxDone>>

SlotsAfterUnlessFailed(n, o) == IF o.ret = "err" THEN n ELSE n - 1

\* defer func() { <-semaphore }(): runs however processProgram returned.
SlotsAfter(n, o) == n - 1

\* s.processProgram(ctx, p) to its return, then the first of the deferred calls
\* to run, <-semaphore: the slot is free while the goroutine has yet to call
\* wg.Done(). The goroutine drops what processProgram returns. `scopes` is how
\* GetProgramScope can end.
ProcessProgramWith(i, scopes) ==
    /\ pg[i].pc = "running"
    /\ \E o \in {ProcessOutcome(programs[i], saveOk, scope) :
                    saveOk \in BOOLEAN, scope \in scopes} :
         /\ pg' = [pg EXCEPT ![i] = o]
         /\ scanSem' = SlotsAfter(scanSem, o)
    /\ UNCHANGED nonScanVars
    /\ UNCHANGED <<rsPc, rsRet, fetchErr, programs, scanCtxDone>>

ProcessProgram(i) == ProcessProgramWith(i, ScopeOutcomes)

\* defer wg.Done(), the last deferred call of the goroutine of program i.
ScanGoroutineDone(i) ==
    /\ pg[i].pc = "exit"
    /\ pg' = [pg EXCEPT ![i].pc = "done"]
    /\ UNCHANGED nonScanVars
    /\ UNCHANGED <<rsPc, rsRet, fetchErr, programs, scanSem, scanCtxDone>>

WaitGroupZeroOrFailed ==
    \/ \A i \in ProgramIds : pg[i].pc \in {"absent", "done"}
    \/ \E i \in ProgramIds : pg[i].pc = "done" /\ pg[i].scope = "auth"

\* wg.Wait() returns: every goroutine has called wg.Done().
WaitGroupZero == \A i \in ProgramIds : pg[i].pc \in {"absent", "done"}

ScanResultFirstError(ps) ==
    IF \E i \in ProgramIds : ps[i].ret = "err" THEN "program failed" ELSE "nil"

\* What RunScan returns after wg.Wait(): nil, whatever the goroutines met.
ScanResult(ps) == "nil"

\* wg.Wait() returned; "Scan completed successfully"; return nil.
RunScanReturn ==
    /\ rsPc = "wait"
    /\ WaitGroupZero
    /\ rsPc' = "returned"
    /\ rsRet' = ScanResult(pg)
    /\ UNCHANGED nonScanVars
    /\ UNCHANGED <<fetchErr, programs, scanSem, scanCtxDone, pg>>

\* The 2 hours of ctx pass. RunScan itself never looks at ctx: it is handed to
\* processProgram, which hands it to DiscoverDomains and CheckDomains.
ScanDeadline ==
    /\ rsPc \in {"call", "wait"}
    /\ ~scanCtxDone
    /\ scanCtxDone' = TRUE
    /\ UNCHANGED nonScanVars
    /\ UNCHANGED <<rsPc, rsRet, fetchErr, programs, scanSem, pg>>

ScanNext ==
    \/ RunScanFetch
    \/ \E i \in ProgramIds : ScanAcquire(i)
    \/ \E i \in ProgramIds : ProcessProgram(i)
    \/ \E i \in ProgramIds : ScanGoroutineDone(i)
    \/ RunScanReturn
    \/ ScanDeadline

\* The steps of the goroutines of RunScan. RunScan never looks at ctx, so the
\* passing of its deadline is left out; a 401 for a scope takes processProgram
\* the way an empty scope does, so the registry answers without it.
ScanLiveNext ==
    \/ RunScanFetch
    \/ \E i \in ProgramIds : ScanAcquire(i)
    \/ \E i \in ProgramIds : ProcessProgramWith(i, ScopeOutcomes \ {"auth"})
    \/ \E i \in ProgramIds : ScanGoroutineDone(i)
    \/ RunScanReturn

-----------------------------------------------------------------------------
(* cleanDomain (src/unnamed/part_001) *)

\* A string is a sequence of characters.
SchemeHttps == <<"h", "t", "t", "p", "s", ":", "/", "/">>
SchemeHttp == <<"h", "t", "t", "p", ":", "/", "/">>
Wildcard == <<"*", ".">>

HasPrefix(s, pre) == Len(s) >= Len(pre) /\ SubSeq(s, 1, Len(pre)) = pre

\* strings.TrimPrefix
TrimPrefix(s, pre) == IF HasPrefix(s, pre) THEN SubSeq(s, Len(pre) + 1, Len(s)) ELSE s

\* strings.Index for a separator of one character: the first position, from 0,
\* or -1.
Index(s, ch) ==
    LET hits == {i \in 1..Len(s) : s[i] = ch}
    IN  IF hits = {} THEN -1 ELSE Min(hits) - 1

\* if idx := strings.Index(domain, sep); idx != -1 { domain = domain[:idx] }
CutAt(s, ch) == IF Index(s, ch) # -1 THEN SubSeq(s, 1, Index(s, ch)) ELSE s

cleanDomainTrimFirst(domain) ==
    TrimPrefix(CutAt(CutAt(TrimPrefix(TrimPrefix(TrimSpace(domain), SchemeHttps),
                                      SchemeHttp), "/"), ":"), Wildcard)

cleanDomain(domain) ==
    LET d1 == TrimPrefix(domain, SchemeHttps)
        d2 == TrimPrefix(d1, SchemeHttp)
        d3 == CutAt(d2, "/")
        d4 == CutAt(d3, ":")
        d5 == TrimPrefix(d4, Wildcard)
    IN  TrimSpace(d5)

\* Raw strings: up to MaxPieces of these pieces end to end, and one full URL.
Pieces ==
    {SchemeHttps, SchemeHttp, Wildcard, <<"/">>, <<":">>, <<" ">>, <<"\n">>, <<"a">>,
     <<"E">>}

RECURSIVE Concats(_)
Concats(n) ==
    IF n = 0 THEN {<<>>}
    ELSE Concats(n - 1) \cup {s \o q : s \in Concats(n - 1), q \in Pieces}

\* "https://*.Example.com:8080/path"
ExampleUrl ==
    <<"h", "t", "t", "p", "s", ":", "/", "/", "*", ".",
      "E", "x", "a", "m", "p", "l", "e", ".", "c", "o", "m",
      ":", "8", "0", "8", "0", "/", "p", "a", "t", "h">>

RawStrings == Concats(MaxPieces) \cup {ExampleUrl}

NoClean == cl = [pc |-> "none", raw |-> <<>>, once |-> <<>>, twice |-> <<>>]

CleanInit ==
    \E x \in RawStrings : cl = [pc |-> "raw", raw |-> x, once |-> <<>>, twice |-> <<>>]

\* cleanDomain(domain), as processProgram calls it for every entry of allDomains.
CleanOnce ==
    /\ cl.pc = "raw"
    /\ cl' = [cl EXCEPT !.pc = "once", !.once = cleanDomain(cl.raw)]
    /\ UNCHANGED nonCleanVars

\* cleanDomain of a string that cleanDomain returned.
CleanTwice ==
    /\ cl.pc = "once"
    /\ cl' = [cl EXCEPT !.pc = "twice", !.twice = cleanDomain(cl.once)]
    /\ UNCHANGED nonCleanVars

CleanNext ==
    \/ CleanOnce
    \/ CleanTwice

-----------------------------------------------------------------------------
(* One program: Scheduler.processProgram (src/unnamed/part_001) *)

\* Identifiers as the registry gives them: "a", "*.a", "https://a/", "b:80", " ".
ScopeRaws ==
    {<<"a">>, Wildcard \o <<"a">>, SchemeHttps \o <<"a", "/">>,
     <<"b", ":", "8", "0">>, <<" ">>}

\* The lists GetProgramScope returns with outcome "found": never empty.
ScopeLists(n) == UNION {[1..k -> ScopeRaws] : k \in 1..n}

\* What DiscoverDomains returns to processProgram, always with a nil error:
\* nothing without the tool, otherwise the subdomains the runs gave.
DiscoverDomainsResults(present) ==
    IF present THEN {<<>>, <<LineX>>, <<<<"a">>, LineX>>} ELSE {<<>>}

FinalDomainsRaw(scope, discovered) == Dedupe(scope \o discovered)

FinalDomainsCleanOnly(scope, discovered) ==
    [i \in 1..Len(scope \o discovered) |-> cleanDomain((scope \o discovered)[i])]

\* allDomains := scopeDomains then discoveredDomains; the "Deduplicate" loop
\* keeps the first occurrence of every cleanDomain that is not empty.
FinalDomains(scope, discovered) ==
    LET all == scope \o discovered
        F[i \in 0..Len(all)] ==
          IF i = 0 THEN <<>>
          ELSE IF cleanDomain(all[i]) # <<>> /\ cleanDomain(all[i]) \notin Range(F[i - 1])
               THEN Append(F[i - 1], cleanDomain(all[i]))
               ELSE F[i - 1]
    IN  F[Len(all)]

\* What CheckDomains can return for ds: a result for every entry, in order; the
\* domains no worker probed (context done, no worker) are "unknown".
CheckDomainsResults(ds) ==
    UNION {{BuildResults(ds, [d \in probed |-> Result(d, st[d])]) :
              st \in [probed -> {"up", "down"}]} : probed \in SUBSET Range(ds)}

StartFrame(program, tool) ==
    [pc |-> "start", program |-> program, tool |-> tool, scope |-> "none",
     scopeDomains |-> <<>>, discovered |-> <<>>, finalDomains |-> <<>>,
     health |-> <<>>, saves |-> <<>>, ret |-> "none"]

NoProcess == pp = [StartFrame(ProgramAt(1), FALSE) EXCEPT !.pc = "none"]

ProcessInit ==
    \E n \in {1, 2}, tool \in BOOLEAN : pp = StartFrame(ProgramAt(n), tool)

\* s.db.SaveProgram(dbProgram): its error is logged and returned.
ProcSaveProgram ==
    /\ pp.pc = "start"
    /\ \E ok \in BOOLEAN :
         pp' = IF ok THEN [pp EXCEPT !.pc = "scope"]
               ELSE [pp EXCEPT !.pc = "returned", !.ret = "err"]
    /\ UNCHANGED nonProcVars

\* How GetProgramScope can end for processProgram: as for the scan, and "error", an
\* error that is not a 401 (the request could not be sent).
ProcScopeOutcomes == ScopeOutcomes \cup {"error"}

ScopeOrFallbackAlways(ds, program) == IF Len(ds) = 0 THEN <<program.domain>> ELSE ds

\* if len(scopeDomains) == 0: the program's domain attribute when it is not
\* empty, otherwise nothing (processProgram returns nil).
ScopeOrFallback(ds, program) ==
    IF Len(ds) = 0
    THEN IF program.domain # <<>> THEN <<program.domain>> ELSE <<>>
    ELSE ds

\* GetProgramScope and the fallback: its error is logged only; with no scope
\* domain the program's domain attribute is used, and without one processProgram
\* returns nil.
ProcGetScope ==
    /\ pp.pc = "scope"
    /\ \E o \in ProcScopeOutcomes :
         \E ds \in (IF o = "found" THEN ScopeLists(MaxScope) ELSE {<<>>}) :
           LET scope == ScopeOrFallback(ds, pp.program)
           IN  pp' = IF Len(scope) # 0
                     THEN [pp EXCEPT !.pc = "discover", !.scope = o,
                                     !.scopeDomains = scope]
                     ELSE [pp EXCEPT !.pc = "returned", !.scope = o, !.ret = "nil"]
    /\ UNCHANGED nonProcVars

\* DiscoverDomains(ctx, scopeDomains), then allDomains and the deduplication.
ProcDiscover ==
    /\ pp.pc = "discover"
    /\ \E found \in DiscoverDomainsResults(pp.tool) :
         pp' = [pp EXCEPT !.pc = "check", !.discovered = found,
                          !.finalDomains = FinalDomains(pp.scopeDomains, found)]
    /\ UNCHANGED nonProcVars

\* healthResults := s.healthCheckService.CheckDomains(ctx, finalDomains)
ProcCheck ==
    /\ pp.pc = "check"
    /\ \E rs \in CheckDomainsResults(pp.finalDomains) :
         pp' = [pp EXCEPT !.pc = "save", !.health = rs]
    /\ UNCHANGED nonProcVars

\* The database.Domain built from a result and what SaveDomain returned for it.
SaveCall(f, r, ok) ==
    [domain |-> r.Domain, program |-> f.program.handle, status |-> r.Status, ok |-> ok]

SaveStepStopsOnError(f, r, ok) ==
    IF ok THEN [f EXCEPT !.saves = Append(@, SaveCall(f, r, ok))]
    ELSE [f EXCEPT !.saves = Append(@, SaveCall(f, r, ok)), !.pc = "returned",
                   !.ret = "err"]

\* One turn of the loop over healthResults: the error of SaveDomain is logged.
SaveStep(f, r, ok) == [f EXCEPT !.saves = Append(@, SaveCall(f, r, ok))]

\* The loop over healthResults: s.db.SaveDomain of the next result; its error is
\* logged and the loop goes on.
ProcSaveDomain ==
    /\ pp.pc = "save"
    /\ Len(pp.saves) < Len(pp.health)
    /\ \E ok \in BOOLEAN : pp' = SaveStep(pp, pp.health[Len(pp.saves) + 1], ok)
    /\ UNCHANGED nonProcVars

\* "Completed processing program"; return nil.
ProcReturn ==
    /\ pp.pc = "save"
    /\ Len(pp.saves) = Len(pp.health)
    /\ pp' = [pp EXCEPT !.pc = "returned", !.ret = "nil"]
    /\ UNCHANGED nonProcVars

ProcessNext ==
    \/ ProcSaveProgram
    \/ ProcGetScope
    \/ ProcDiscover
    \/ ProcCheck
    \/ ProcSaveDomain
    \/ ProcReturn

-----------------------------------------------------------------------------
(* The program type: Scheduler.processProgram (src/unnamed/part_001) *)

\* The code points unicode.ToUpper changes, in the order of their numbers, and
\* under each its upper-case form in UpperCase: the simple upper-case mappings of
\* the Unicode tables of the toolchain that builds the program (golang:1.21,
\* Unicode 15.0: a to z, Latin-1, Greek, Cyrillic, ...). Two letters outside
\* ASCII have an ASCII letter as theirs, the dotless i (U+0131, "I") and the long
\* s (U+017F, "S").
LowerCase ==
    <<"a", "b", "c", "d", "e", "f", "g", "h", "i", "j", "k", "l", "m", "n",
      "o", "p", "q", "r", "s", "t", "u", "v", "w", "x", "y", "z", "U+00B5",
      "U+00E0", "U+00E1", "U+00E2", "U+00E3", "U+00E4", "U+00E5", "U+00E6",
      "U+00E7", "U+00E8", "U+00E9", "U+00EA", "U+00EB", "U+00EC", "U+00ED",
      "U+00EE", "U+00EF", "U+00F0", "U+00F1", "U+00F2", "U+00F3", "U+00F4",
      "U+00F5", "U+00F6", "U+00F8", "U+00F9", "U+00FA", "U+00FB", "U+00FC",
      "U+00FD", "U+00FE", "U+00FF", "U+0101", "U+0103", "U+0105", "U+0107",
      "U+0109", "U+010B", "U+010D", "U+010F", "U+0111", "U+0113", "U+0115",
      "U+0117", "U+0119", "U+011B", "U+011D", "U+011F", "U+0121", "U+0123",
      "U+0125", "U+0127", "U+0129", "U+012B", "U+012D", "U+012F", "U+0131",
      "U+0133", "U+0135", "U+0137", "U+013A", "U+013C", "U+013E", "U+0140",
      "U+0142", "U+0144", "U+0146", "U+0148", "U+014B", "U+014D", "U+014F",
      "U+0151", "U+0153", "U+0155", "U+0157", "U+0159", "U+015B", "U+015D",
      "U+015F", "U+0161", "U+0163", "U+0165", "U+0167", "U+0169", "U+016B",
      "U+016D", "U+016F", "U+0171", "U+0173", "U+0175", "U+0177", "U+017A",
      "U+017C", "U+017E", "U+017F", "U+0180", "U+0183", "U+0185", "U+0188",
      "U+018C", "U+0192", "U+0195", "U+0199", "U+019A", "U+019E", "U+01A1",
      "U+01A3", "U+01A5", "U+01A8", "U+01AD", "U+01B0", "U+01B4", "U+01B6",
      "U+01B9", "U+01BD", "U+01BF", "U+01C5", "U+01C6", "U+01C8", "U+01C9",
      "U+01CB", "U+01CC", "U+01CE", "U+01D0", "U+01D2", "U+01D4", "U+01D6",
      "U+01D8", "U+01DA", "U+01DC", "U+01DD", "U+01DF", "U+01E1", "U+01E3",
      "U+01E5", "U+01E7", "U+01E9", "U+01EB", "U+01ED", "U+01EF", "U+01F2",
      "U+01F3", "U+01F5", "U+01F9", "U+01FB", "U+01FD", "U+01FF", "U+0201",
      "U+0203", "U+0205", "U+0207", "U+0209", "U+020B", "U+020D", "U+020F",
      "U+0211", "U+0213", "U+0215", "U+0217", "U+0219", "U+021B", "U+021D",
      "U+021F", "U+0223", "U+0225", "U+0227", "U+0229", "U+022B", "U+022D",
      "U+022F", "U+0231", "U+0233", "U+023C", "U+023F", "U+0240", "U+0242",
      "U+0247", "U+0249", "U+024B", "U+024D", "U+024F", "U+0250", "U+0251",
      "U+0252", "U+0253", "U+0254", "U+0256", "U+0257", "U+0259", "U+025B",
      "U+025C", "U+0260", "U+0261", "U+0263", "U+0265", "U+0266", "U+0268",
      "U+0269", "U+026A", "U+026B", "U+026C", "U+026F", "U+0271", "U+0272",
      "U+0275", "U+027D", "U+0280", "U+0282", "U+0283", "U+0287", "U+0288",
      "U+0289", "U+028A", "U+028B", "U+028C", "U+0292", "U+029D", "U+029E",
      "U+0345", "U+0371", "U+0373", "U+0377", "U+037B", "U+037C", "U+037D",
      "U+03AC", "U+03AD", "U+03AE", "U+03AF", "U+03B1", "U+03B2", "U+03B3",
      "U+03B4", "U+03B5", "U+03B6", "U+03B7", "U+03B8", "U+03B9", "U+03BA",
      "U+03BB", "U+03BC", "U+03BD", "U+03BE", "U+03BF", "U+03C0", "U+03C1",
      "U+03C2", "U+03C3", "U+03C4", "U+03C5", "U+03C6", "U+03C7", "U+03C8",
      "U+03C9", "U+03CA", "U+03CB", "U+03CC", "U+03CD", "U+03CE", "U+03D0",
      "U+03D1", "U+03D5", "U+03D6", "U+03D7", "U+03D9", "U+03DB", "U+03DD",
      "U+03DF", "U+03E1", "U+03E3", "U+03E5", "U+03E7", "U+03E9", "U+03EB",
      "U+03ED", "U+03EF", "U+03F0", "U+03F1", "U+03F2", "U+03F3", "U+03F5",
      "U+03F8", "U+03FB", "U+0430", "U+0431", "U+0432", "U+0433", "U+0434",
      "U+0435", "U+0436", "U+0437", "U+0438", "U+0439", "U+043A", "U+043B",
      "U+043C", "U+043D", "U+043E", "U+043F", "U+0440", "U+0441", "U+0442",
      "U+0443", "U+0444", "U+0445", "U+0446", "U+0447", "U+0448", "U+0449",
      "U+044A", "U+044B", "U+044C", "U+044D", "U+044E", "U+044F", "U+0450",
      "U+0451", "U+0452", "U+0453", "U+0454", "U+0455", "U+0456", "U+0457",
      "U+0458", "U+0459", "U+045A", "U+045B", "U+045C", "U+045D", "U+045E",
      "U+045F", "U+0461", "U+0463", "U+0465", "U+0467", "U+0469", "U+046B",
      "U+046D", "U+046F", "U+0471", "U+0473", "U+0475", "U+0477", "U+0479",
      "U+047B", "U+047D", "U+047F", "U+0481", "U+048B", "U+048D", "U+048F",
      "U+0491", "U+0493", "U+0495", "U+0497", "U+0499", "U+049B", "U+049D",
      "U+049F", "U+04A1", "U+04A3", "U+04A5", "U+04A7", "U+04A9", "U+04AB",
      "U+04AD", "U+04AF", "U+04B1", "U+04B3", "U+04B5", "U+04B7", "U+04B9",
      "U+04BB", "U+04BD", "U+04BF", "U+04C2", "U+04C4", "U+04C6", "U+04C8",
      "U+04CA", "U+04CC", "U+04CE", "U+04CF", "U+04D1", "U+04D3", "U+04D5",
      "U+04D7", "U+04D9", "U+04DB", "U+04DD", "U+04DF", "U+04E1", "U+04E3",
      "U+04E5", "U+04E7", "U+04E9", "U+04EB", "U+04ED", "U+04EF", "U+04F1",
      "U+04F3", "U+04F5", "U+04F7", "U+04F9", "U+04FB", "U+04FD", "U+04FF",
      "U+0501", "U+0503", "U+0505", "U+0507", "U+0509", "U+050B", "U+050D",
      "U+050F", "U+0511", "U+0513", "U+0515", "U+0517", "U+0519", "U+051B",
      "U+051D", "U+051F", "U+0521", "U+0523", "U+0525", "U+0527", "U+0529",
      "U+052B", "U+052D", "U+052F", "U+0561", "U+0562", "U+0563", "U+0564",
      "U+0565", "U+0566", "U+0567", "U+0568", "U+0569", "U+056A", "U+056B",
      "U+056C", "U+056D", "U+056E", "U+056F", "U+0570", "U+0571", "U+0572",
      "U+0573", "U+0574", "U+0575", "U+0576", "U+0577", "U+0578", "U+0579",
      "U+057A", "U+057B", "U+057C", "U+057D", "U+057E", "U+057F", "U+0580",
      "U+0581", "U+0582", "U+0583", "U+0584", "U+0585", "U+0586", "U+10D0",
      "U+10D1", "U+10D2", "U+10D3", "U+10D4", "U+10D5", "U+10D6", "U+10D7",
      "U+10D8", "U+10D9", "U+10DA", "U+10DB", "U+10DC", "U+10DD", "U+10DE",
      "U+10DF", "U+10E0", "U+10E1", "U+10E2", "U+10E3", "U+10E4", "U+10E5",
      "U+10E6", "U+10E7", "U+10E8", "U+10E9", "U+10EA", "U+10EB", "U+10EC",
      "U+10ED", "U+10EE", "U+10EF", "U+10F0", "U+10F1", "U+10F2", "U+10F3",
      "U+10F4", "U+10F5", "U+10F6", "U+10F7", "U+10F8", "U+10F9", "U+10FA",
      "U+10FD", "U+10FE", "U+10FF", "U+13F8", "U+13F9", "U+13FA", "U+13FB",
      "U+13FC", "U+13FD", "U+1C80", "U+1C81", "U+1C82", "U+1C83", "U+1C84",
      "U+1C85", "U+1C86", "U+1C87", "U+1C88", "U+1D79", "U+1D7D", "U+1D8E",
      "U+1E01", "U+1E03", "U+1E05", "U+1E07", "U+1E09", "U+1E0B", "U+1E0D",
      "U+1E0F", "U+1E11", "U+1E13", "U+1E15", "U+1E17", "U+1E19", "U+1E1B",
      "U+1E1D", "U+1E1F", "U+1E21", "U+1E23", "U+1E25", "U+1E27", "U+1E29",
      "U+1E2B", "U+1E2D", "U+1E2F", "U+1E31", "U+1E33", "U+1E35", "U+1E37",
      "U+1E39", "U+1E3B", "U+1E3D", "U+1E3F", "U+1E41", "U+1E43", "U+1E45",
      "U+1E47", "U+1E49", "U+1E4B", "U+1E4D", "U+1E4F", "U+1E51", "U+1E53",
      "U+1E55", "U+1E57", "U+1E59", "U+1E5B", "U+1E5D", "U+1E5F", "U+1E61",
      "U+1E63", "U+1E65", "U+1E67", "U+1E69", "U+1E6B", "U+1E6D", "U+1E6F",
      "U+1E71", "U+1E73", "U+1E75", "U+1E77", "U+1E79", "U+1E7B", "U+1E7D",
      "U+1E7F", "U+1E81", "U+1E83", "U+1E85", "U+1E87", "U+1E89", "U+1E8B",
      "U+1E8D", "U+1E8F", "U+1E91", "U+1E93", "U+1E95", "U+1E9B", "U+1EA1",
      "U+1EA3", "U+1EA5", "U+1EA7", "U+1EA9", "U+1EAB", "U+1EAD", "U+1EAF",
      "U+1EB1", "U+1EB3", "U+1EB5", "U+1EB7", "U+1EB9", "U+1EBB", "U+1EBD",
      "U+1EBF", "U+1EC1", "U+1EC3", "U+1EC5", "U+1EC7", "U+1EC9", "U+1ECB",
      "U+1ECD", "U+1ECF", "U+1ED1", "U+1ED3", "U+1ED5", "U+1ED7", "U+1ED9",
      "U+1EDB", "U+1EDD", "U+1EDF", "U+1EE1", "U+1EE3", "U+1EE5", "U+1EE7",
      "U+1EE9", "U+1EEB", "U+1EED", "U+1EEF", "U+1EF1", "U+1EF3", "U+1EF5",
      "U+1EF7", "U+1EF9", "U+1EFB", "U+1EFD", "U+1EFF", "U+1F00", "U+1F01",
      "U+1F02", "U+1F03", "U+1F04", "U+1F05", "U+1F06", "U+1F07", "U+1F10",
      "U+1F11", "U+1F12", "U+1F13", "U+1F14", "U+1F15", "U+1F20", "U+1F21",
      "U+1F22", "U+1F23", "U+1F24", "U+1F25", "U+1F26", "U+1F27", "U+1F30",
      "U+1F31", "U+1F32", "U+1F33", "U+1F34", "U+1F35", "U+1F36", "U+1F37",
      "U+1F40", "U+1F41", "U+1F42", "U+1F43", "U+1F44", "U+1F45", "U+1F51",
      "U+1F53", "U+1F55", "U+1F57", "U+1F60", "U+1F61", "U+1F62", "U+1F63",
      "U+1F64", "U+1F65", "U+1F66", "U+1F67", "U+1F70", "U+1F71", "U+1F72",
      "U+1F73", "U+1F74", "U+1F75", "U+1F76", "U+1F77", "U+1F78", "U+1F79",
      "U+1F7A", "U+1F7B", "U+1F7C", "U+1F7D", "U+1F80", "U+1F81", "U+1F82",
      "U+1F83", "U+1F84", "U+1F85", "U+1F86", "U+1F87", "U+1F90", "U+1F91",
      "U+1F92", "U+1F93", "U+1F94", "U+1F95", "U+1F96", "U+1F97", "U+1FA0",
      "U+1FA1", "U+1FA2", "U+1FA3", "U+1FA4", "U+1FA5", "U+1FA6", "U+1FA7",
      "U+1FB0", "U+1FB1", "U+1FB3", "U+1FBE", "U+1FC3", "U+1FD0", "U+1FD1",
      "U+1FE0", "U+1FE1", "U+1FE5", "U+1FF3", "U+214E", "U+2170", "U+2171",
      "U+2172", "U+2173", "U+2174", "U+2175", "U+2176", "U+2177", "U+2178",
      "U+2179", "U+217A", "U+217B", "U+217C", "U+217D", "U+217E", "U+217F",
      "U+2184", "U+24D0", "U+24D1", "U+24D2", "U+24D3", "U+24D4", "U+24D5",
      "U+24D6", "U+24D7", "U+24D8", "U+24D9", "U+24DA", "U+24DB", "U+24DC",
      "U+24DD", "U+24DE", "U+24DF", "U+24E0", "U+24E1", "U+24E2", "U+24E3",
      "U+24E4", "U+24E5", "U+24E6", "U+24E7", "U+24E8", "U+24E9", "U+2C30",
      "U+2C31", "U+2C32", "U+2C33", "U+2C34", "U+2C35", "U+2C36", "U+2C37",
      "U+2C38", "U+2C39", "U+2C3A", "U+2C3B", "U+2C3C", "U+2C3D", "U+2C3E",
      "U+2C3F", "U+2C40", "U+2C41", "U+2C42", "U+2C43", "U+2C44", "U+2C45",
      "U+2C46", "U+2C47", "U+2C48", "U+2C49", "U+2C4A", "U+2C4B", "U+2C4C",
      "U+2C4D", "U+2C4E", "U+2C4F", "U+2C50", "U+2C51", "U+2C52", "U+2C53",
      "U+2C54", "U+2C55", "U+2C56", "U+2C57", "U+2C58", "U+2C59", "U+2C5A",
      "U+2C5B", "U+2C5C", "U+2C5D", "U+2C5E", "U+2C5F", "U+2C61", "U+2C65",
      "U+2C66", "U+2C68", "U+2C6A", "U+2C6C", "U+2C73", "U+2C76", "U+2C81",
      "U+2C83", "U+2C85", "U+2C87", "U+2C89", "U+2C8B", "U+2C8D", "U+2C8F",
      "U+2C91", "U+2C93", "U+2C95", "U+2C97", "U+2C99", "U+2C9B", "U+2C9D",
      "U+2C9F", "U+2CA1", "U+2CA3", "U+2CA5", "U+2CA7", "U+2CA9", "U+2CAB",
      "U+2CAD", "U+2CAF", "U+2CB1", "U+2CB3", "U+2CB5", "U+2CB7", "U+2CB9",
      "U+2CBB", "U+2CBD", "U+2CBF", "U+2CC1", "U+2CC3", "U+2CC5", "U+2CC7",
      "U+2CC9", "U+2CCB", "U+2CCD", "U+2CCF", "U+2CD1", "U+2CD3", "U+2CD5",
      "U+2CD7", "U+2CD9", "U+2CDB", "U+2CDD", "U+2CDF", "U+2CE1", "U+2CE3",
      "U+2CEC", "U+2CEE", "U+2CF3", "U+2D00", "U+2D01", "U+2D02", "U+2D03",
      "U+2D04", "U+2D05", "U+2D06", "U+2D07", "U+2D08", "U+2D09", "U+2D0A",
      "U+2D0B", "U+2D0C", "U+2D0D", "U+2D0E", "U+2D0F", "U+2D10", "U+2D11",
      "U+2D12", "U+2D13", "U+2D14", "U+2D15", "U+2D16", "U+2D17", "U+2D18",
      "U+2D19", "U+2D1A", "U+2D1B", "U+2D1C", "U+2D1D", "U+2D1E", "U+2D1F",
      "U+2D20", "U+2D21", "U+2D22", "U+2D23", "U+2D24", "U+2D25", "U+2D27",
      "U+2D2D", "U+A641", "U+A643", "U+A645", "U+A647", "U+A649", "U+A64B",
      "U+A64D", "U+A64F", "U+A651", "U+A653", "U+A655", "U+A657", "U+A659",
      "U+A65B", "U+A65D", "U+A65F", "U+A661", "U+A663", "U+A665", "U+A667",
      "U+A669", "U+A66B", "U+A66D", "U+A681", "U+A683", "U+A685", "U+A687",
      "U+A689", "U+A68B", "U+A68D", "U+A68F", "U+A691", "U+A693", "U+A695",
      "U+A697", "U+A699", "U+A69B", "U+A723", "U+A725", "U+A727", "U+A729",
      "U+A72B", "U+A72D", "U+A72F", "U+A733", "U+A735", "U+A737", "U+A739",
      "U+A73B", "U+A73D", "U+A73F", "U+A741", "U+A743", "U+A745", "U+A747",
      "U+A749", "U+A74B", "U+A74D", "U+A74F", "U+A751", "U+A753", "U+A755",
      "U+A757", "U+A759", "U+A75B", "U+A75D", "U+A75F", "U+A761", "U+A763",
      "U+A765", "U+A767", "U+A769", "U+A76B", "U+A76D", "U+A76F", "U+A77A",
      "U+A77C", "U+A77F", "U+A781", "U+A783", "U+A785", "U+A787", "U+A78C",
      "U+A791", "U+A793", "U+A794", "U+A797", "U+A799", "U+A79B", "U+A79D",
      "U+A79F", "U+A7A1", "U+A7A3", "U+A7A5", "U+A7A7", "U+A7A9", "U+A7B5",
      "U+A7B7", "U+A7B9", "U+A7BB", "U+A7BD", "U+A7BF", "U+A7C1", "U+A7C3",
      "U+A7C8", "U+A7CA", "U+A7D1", "U+A7D7", "U+A7D9", "U+A7F6", "U+AB53",
      "U+AB70", "U+AB71", "U+AB72", "U+AB73", "U+AB74", "U+AB75", "U+AB76",
      "U+AB77", "U+AB78", "U+AB79", "U+AB7A", "U+AB7B", "U+AB7C", "U+AB7D",
      "U+AB7E", "U+AB7F", "U+AB80", "U+AB81", "U+AB82", "U+AB83", "U+AB84",
      "U+AB85", "U+AB86", "U+AB87", "U+AB88", "U+AB89", "U+AB8A", "U+AB8B",
      "U+AB8C", "U+AB8D", "U+AB8E", "U+AB8F", "U+AB90", "U+AB91", "U+AB92",
      "U+AB93", "U+AB94", "U+AB95", "U+AB96", "U+AB97", "U+AB98", "U+AB99",
      "U+AB9A", "U+AB9B", "U+AB9C", "U+AB9D", "U+AB9E", "U+AB9F", "U+ABA0",
      "U+ABA1", "U+ABA2", "U+ABA3", "U+ABA4", "U+ABA5", "U+ABA6", "U+ABA7",
      "U+ABA8", "U+ABA9", "U+ABAA", "U+ABAB", "U+ABAC", "U+ABAD", "U+ABAE",
      "U+ABAF", "U+ABB0", "U+ABB1", "U+ABB2", "U+ABB3", "U+ABB4", "U+ABB5",
      "U+ABB6", "U+ABB7", "U+ABB8", "U+ABB9", "U+ABBA", "U+ABBB", "U+ABBC",
      "U+ABBD", "U+ABBE", "U+ABBF", "U+FF41", "U+FF42", "U+FF43", "U+FF44",
      "U+FF45", "U+FF46", "U+FF47", "U+FF48", "U+FF49", "U+FF4A", "U+FF4B",
      "U+FF4C", "U+FF4D", "U+FF4E", "U+FF4F", "U+FF50", "U+FF51", "U+FF52",
      "U+FF53", "U+FF54", "U+FF55", "U+FF56", "U+FF57", "U+FF58", "U+FF59",
      "U+FF5A", "U+10428", "U+10429", "U+1042A", "U+1042B", "U+1042C",
      "U+1042D", "U+1042E", "U+1042F", "U+10430", "U+10431", "U+10432",
      "U+10433", "U+10434", "U+10435", "U+10436", "U+10437", "U+10438",
      "U+10439", "U+1043A", "U+1043B", "U+1043C", "U+1043D", "U+1043E",
      "U+1043F", "U+10440", "U+10441", "U+10442", "U+10443", "U+10444",
      "U+10445", "U+10446", "U+10447", "U+10448", "U+10449", "U+1044A",
      "U+1044B", "U+1044C", "U+1044D", "U+1044E", "U+1044F", "U+104D8",
      "U+104D9", "U+104DA", "U+104DB", "U+104DC", "U+104DD", "U+104DE",
      "U+104DF", "U+104E0", "U+104E1", "U+104E2", "U+104E3", "U+104E4",
      "U+104E5", "U+104E6", "U+104E7", "U+104E8", "U+104E9", "U+104EA",
      "U+104EB", "U+104EC", "U+104ED", "U+104EE", "U+104EF", "U+104F0",
      "U+104F1", "U+104F2", "U+104F3", "U+104F4", "U+104F5", "U+104F6",
      "U+104F7", "U+104F8", "U+104F9", "U+104FA", "U+104FB", "U+10597",
      "U+10598", "U+10599", "U+1059A", "U+1059B", "U+1059C", "U+1059D",
      "U+1059E", "U+1059F", "U+105A0", "U+105A1", "U+105A3", "U+105A4",
      "U+105A5", "U+105A6", "U+105A7", "U+105A8", "U+105A9", "U+105AA",
      "U+105AB", "U+105AC", "U+105AD", "U+105AE", "U+105AF", "U+105B0",
      "U+105B1", "U+105B3", "U+105B4", "U+105B5", "U+105B6", "U+105B7",
      "U+105B8", "U+105B9", "U+105BB", "U+105BC", "U+10CC0", "U+10CC1",
      "U+10CC2", "U+10CC3", "U+10CC4", "U+10CC5", "U+10CC6", "U+10CC7",
      "U+10CC8", "U+10CC9", "U+10CCA", "U+10CCB", "U+10CCC", "U+10CCD",
      "U+10CCE", "U+10CCF", "U+10CD0", "U+10CD1", "U+10CD2", "U+10CD3",
      "U+10CD4", "U+10CD5", "U+10CD6", "U+10CD7", "U+10CD8", "U+10CD9",
      "U+10CDA", "U+10CDB", "U+10CDC", "U+10CDD", "U+10CDE", "U+10CDF",
      "U+10CE0", "U+10CE1", "U+10CE2", "U+10CE3", "U+10CE4", "U+10CE5",
      "U+10CE6", "U+10CE7", "U+10CE8", "U+10CE9", "U+10CEA", "U+10CEB",
      "U+10CEC", "U+10CED", "U+10CEE", "U+10CEF", "U+10CF0", "U+10CF1",
      "U+10CF2", "U+118C0", "U+118C1", "U+118C2", "U+118C3", "U+118C4",
      "U+118C5", "U+118C6", "U+118C7", "U+118C8", "U+118C9", "U+118CA",
      "U+118CB", "U+118CC", "U+118CD", "U+118CE", "U+118CF", "U+118D0",
      "U+118D1", "U+118D2", "U+118D3", "U+118D4", "U+118D5", "U+118D6",
      "U+118D7", "U+118D8", "U+118D9", "U+118DA", "U+118DB", "U+118DC",
      "U+118DD", "U+118DE", "U+118DF", "U+16E60", "U+16E61", "U+16E62",
      "U+16E63", "U+16E64", "U+16E65", "U+16E66", "U+16E67", "U+16E68",
      "U+16E69", "U+16E6A", "U+16E6B", "U+16E6C", "U+16E6D", "U+16E6E",
      "U+16E6F", "U+16E70", "U+16E71", "U+16E72", "U+16E73", "U+16E74",
      "U+16E75", "U+16E76", "U+16E77", "U+16E78", "U+16E79", "U+16E7A",
      "U+16E7B", "U+16E7C", "U+16E7D", "U+16E7E", "U+16E7F", "U+1E922",
      "U+1E923", "U+1E924", "U+1E925", "U+1E926", "U+1E927", "U+1E928",
      "U+1E929", "U+1E92A", "U+1E92B", "U+1E92C", "U+1E92D", "U+1E92E",
      "U+1E92F", "U+1E930", "U+1E931", "U+1E932", "U+1E933", "U+1E934",
      "U+1E935", "U+1E936", "U+1E937", "U+1E938", "U+1E939", "U+1E93A",
      "U+1E93B", "U+1E93C", "U+1E93D", "U+1E93E", "U+1E93F", "U+1E940",
      "U+1E941", "U+1E942", "U+1E943">>

UpperCase ==
    <<"A", "B", "C", "D", "E", "F", "G", "H", "I", "J", "K", "L", "M", "N",
      "O", "P", "Q", "R", "S", "T", "U", "V", "W", "X", "Y", "Z", "U+039C",
      "U+00C0", "U+00C1", "U+00C2", "U+00C3", "U+00C4", "U+00C5", "U+00C6",
      "U+00C7", "U+00C8", "U+00C9", "U+00CA", "U+00CB", "U+00CC", "U+00CD",
      "U+00CE", "U+00CF", "U+00D0", "U+00D1", "U+00D2", "U+00D3", "U+00D4",
      "U+00D5", "U+00D6", "U+00D8", "U+00D9", "U+00DA", "U+00DB", "U+00DC",
      "U+00DD", "U+00DE", "U+0178", "U+0100", "U+0102", "U+0104", "U+0106",
      "U+0108", "U+010A", "U+010C", "U+010E", "U+0110", "U+0112", "U+0114",
      "U+0116", "U+0118", "U+011A", "U+011C", "U+011E", "U+0120", "U+0122",
      "U+0124", "U+0126", "U+0128", "U+012A", "U+012C", "U+012E", "I",
      "U+0132", "U+0134", "U+0136", "U+0139", "U+013B", "U+013D", "U+013F",
      "U+0141", "U+0143", "U+0145", "U+0147", "U+014A", "U+014C", "U+014E",
      "U+0150", "U+0152", "U+0154", "U+0156", "U+0158", "U+015A", "U+015C",
      "U+015E", "U+0160", "U+0162", "U+0164", "U+0166", "U+0168", "U+016A",
      "U+016C", "U+016E", "U+0170", "U+0172", "U+0174", "U+0176", "U+0179",
      "U+017B", "U+017D", "S", "U+0243", "U+0182", "U+0184", "U+0187",
      "U+018B", "U+0191", "U+01F6", "U+0198", "U+023D", "U+0220", "U+01A0",
      "U+01A2", "U+01A4", "U+01A7", "U+01AC", "U+01AF", "U+01B3", "U+01B5",
      "U+01B8", "U+01BC", "U+01F7", "U+01C4", "U+01C4", "U+01C7", "U+01C7",
      "U+01CA", "U+01CA", "U+01CD", "U+01CF", "U+01D1", "U+01D3", "U+01D5",
      "U+01D7", "U+01D9", "U+01DB", "U+018E", "U+01DE", "U+01E0", "U+01E2",
      "U+01E4", "U+01E6", "U+01E8", "U+01EA", "U+01EC", "U+01EE", "U+01F1",
      "U+01F1", "U+01F4", "U+01F8", "U+01FA", "U+01FC", "U+01FE", "U+0200",
      "U+0202", "U+0204", "U+0206", "U+0208", "U+020A", "U+020C", "U+020E",
      "U+0210", "U+0212", "U+0214", "U+0216", "U+0218", "U+021A", "U+021C",
      "U+021E", "U+0222", "U+0224", "U+0226", "U+0228", "U+022A", "U+022C",
      "U+022E", "U+0230", "U+0232", "U+023B", "U+2C7E", "U+2C7F", "U+0241",
      "U+0246", "U+0248", "U+024A", "U+024C", "U+024E", "U+2C6F", "U+2C6D",
      "U+2C70", "U+0181", "U+0186", "U+0189", "U+018A", "U+018F", "U+0190",
      "U+A7AB", "U+0193", "U+A7AC", "U+0194", "U+A78D", "U+A7AA", "U+0197",
      "U+0196", "U+A7AE", "U+2C62", "U+A7AD", "U+019C", "U+2C6E", "U+019D",
      "U+019F", "U+2C64", "U+01A6", "U+A7C5", "U+01A9", "U+A7B1", "U+01AE",
      "U+0244", "U+01B1", "U+01B2", "U+0245", "U+01B7", "U+A7B2", "U+A7B0",
      "U+0399", "U+0370", "U+0372", "U+0376", "U+03FD", "U+03FE", "U+03FF",
      "U+0386", "U+0388", "U+0389", "U+038A", "U+0391", "U+0392", "U+0393",
      "U+0394", "U+0395", "U+0396", "U+0397", "U+0398", "U+0399", "U+039A",
      "U+039B", "U+039C", "U+039D", "U+039E", "U+039F", "U+03A0", "U+03A1",
      "U+03A3", "U+03A3", "U+03A4", "U+03A5", "U+03A6", "U+03A7", "U+03A8",
      "U+03A9", "U+03AA", "U+03AB", "U+038C", "U+038E", "U+038F", "U+0392",
      "U+0398", "U+03A6", "U+03A0", "U+03CF", "U+03D8", "U+03DA", "U+03DC",
      "U+03DE", "U+03E0", "U+03E2", "U+03E4", "U+03E6", "U+03E8", "U+03EA",
      "U+03EC", "U+03EE", "U+039A", "U+03A1", "U+03F9", "U+037F", "U+0395",
      "U+03F7", "U+03FA", "U+0410", "U+0411", "U+0412", "U+0413", "U+0414",
      "U+0415", "U+0416", "U+0417", "U+0418", "U+0419", "U+041A", "U+041B",
      "U+041C", "U+041D", "U+041E", "U+041F", "U+0420", "U+0421", "U+0422",
      "U+0423", "U+0424", "U+0425", "U+0426", "U+0427", "U+0428", "U+0429",
      "U+042A", "U+042B", "U+042C", "U+042D", "U+042E", "U+042F", "U+0400",
      "U+0401", "U+0402", "U+0403", "U+0404", "U+0405", "U+0406", "U+0407",
      "U+0408", "U+0409", "U+040A", "U+040B", "U+040C", "U+040D", "U+040E",
      "U+040F", "U+0460", "U+0462", "U+0464", "U+0466", "U+0468", "U+046A",
      "U+046C", "U+046E", "U+0470", "U+0472", "U+0474", "U+0476", "U+0478",
      "U+047A", "U+047C", "U+047E", "U+0480", "U+048A", "U+048C", "U+048E",
      "U+0490", "U+0492", "U+0494", "U+0496", "U+0498", "U+049A", "U+049C",
      "U+049E", "U+04A0", "U+04A2", "U+04A4", "U+04A6", "U+04A8", "U+04AA",
      "U+04AC", "U+04AE", "U+04B0", "U+04B2", "U+04B4", "U+04B6", "U+04B8",
      "U+04BA", "U+04BC", "U+04BE", "U+04C1", "U+04C3", "U+04C5", "U+04C7",
      "U+04C9", "U+04CB", "U+04CD", "U+04C0", "U+04D0", "U+04D2", "U+04D4",
      "U+04D6", "U+04D8", "U+04DA", "U+04DC", "U+04DE", "U+04E0", "U+04E2",
      "U+04E4", "U+04E6", "U+04E8", "U+04EA", "U+04EC", "U+04EE", "U+04F0",
      "U+04F2", "U+04F4", "U+04F6", "U+04F8", "U+04FA", "U+04FC", "U+04FE",
      "U+0500", "U+0502", "U+0504", "U+0506", "U+0508", "U+050A", "U+050C",
      "U+050E", "U+0510", "U+0512", "U+0514", "U+0516", "U+0518", "U+051A",
      "U+051C", "U+051E", "U+0520", "U+0522", "U+0524", "U+0526", "U+0528",
      "U+052A", "U+052C", "U+052E", "U+0531", "U+0532", "U+0533", "U+0534",
      "U+0535", "U+0536", "U+0537", "U+0538", "U+0539", "U+053A", "U+053B",
      "U+053C", "U+053D", "U+053E", "U+053F", "U+0540", "U+0541", "U+0542",
      "U+0543", "U+0544", "U+0545", "U+0546", "U+0547", "U+0548", "U+0549",
      "U+054A", "U+054B", "U+054C", "U+054D", "U+054E", "U+054F", "U+0550",
      "U+0551", "U+0552", "U+0553", "U+0554", "U+0555", "U+0556", "U+1C90",
      "U+1C91", "U+1C92", "U+1C93", "U+1C94", "U+1C95", "U+1C96", "U+1C97",
      "U+1C98", "U+1C99", "U+1C9A", "U+1C9B", "U+1C9C", "U+1C9D", "U+1C9E",
      "U+1C9F", "U+1CA0", "U+1CA1", "U+1CA2", "U+1CA3", "U+1CA4", "U+1CA5",
      "U+1CA6", "U+1CA7", "U+1CA8", "U+1CA9", "U+1CAA", "U+1CAB", "U+1CAC",
      "U+1CAD", "U+1CAE", "U+1CAF", "U+1CB0", "U+1CB1", "U+1CB2", "U+1CB3",
      "U+1CB4", "U+1CB5", "U+1CB6", "U+1CB7", "U+1CB8", "U+1CB9", "U+1CBA",
      "U+1CBD", "U+1CBE", "U+1CBF", "U+13F0", "U+13F1", "U+13F2", "U+13F3",
      "U+13F4", "U+13F5", "U+0412", "U+0414", "U+041E", "U+0421", "U+0422",
      "U+0422", "U+042A", "U+0462", "U+A64A", "U+A77D", "U+2C63", "U+A7C6",
      "U+1E00", "U+1E02", "U+1E04", "U+1E06", "U+1E08", "U+1E0A", "U+1E0C",
      "U+1E0E", "U+1E10", "U+1E12", "U+1E14", "U+1E16", "U+1E18", "U+1E1A",
      "U+1E1C", "U+1E1E", "U+1E20", "U+1E22", "U+1E24", "U+1E26", "U+1E28",
      "U+1E2A", "U+1E2C", "U+1E2E", "U+1E30", "U+1E32", "U+1E34", "U+1E36",
      "U+1E38", "U+1E3A", "U+1E3C", "U+1E3E", "U+1E40", "U+1E42", "U+1E44",
      "U+1E46", "U+1E48", "U+1E4A", "U+1E4C", "U+1E4E", "U+1E50", "U+1E52",
      "U+1E54", "U+1E56", "U+1E58", "U+1E5A", "U+1E5C", "U+1E5E", "U+1E60",
      "U+1E62", "U+1E64", "U+1E66", "U+1E68", "U+1E6A", "U+1E6C", "U+1E6E",
      "U+1E70", "U+1E72", "U+1E74", "U+1E76", "U+1E78", "U+1E7A", "U+1E7C",
      "U+1E7E", "U+1E80", "U+1E82", "U+1E84", "U+1E86", "U+1E88", "U+1E8A",
      "U+1E8C", "U+1E8E", "U+1E90", "U+1E92", "U+1E94", "U+1E60", "U+1EA0",
      "U+1EA2", "U+1EA4", "U+1EA6", "U+1EA8", "U+1EAA", "U+1EAC", "U+1EAE",
      "U+1EB0", "U+1EB2", "U+1EB4", "U+1EB6", "U+1EB8", "U+1EBA", "U+1EBC",
      "U+1EBE", "U+1EC0", "U+1EC2", "U+1EC4", "U+1EC6", "U+1EC8", "U+1ECA",
      "U+1ECC", "U+1ECE", "U+1ED0", "U+1ED2", "U+1ED4", "U+1ED6", "U+1ED8",
      "U+1EDA", "U+1EDC", "U+1EDE", "U+1EE0", "U+1EE2", "U+1EE4", "U+1EE6",
      "U+1EE8", "U+1EEA", "U+1EEC", "U+1EEE", "U+1EF0", "U+1EF2", "U+1EF4",
      "U+1EF6", "U+1EF8", "U+1EFA", "U+1EFC", "U+1EFE", "U+1F08", "U+1F09",
      "U+1F0A", "U+1F0B", "U+1F0C", "U+1F0D", "U+1F0E", "U+1F0F", "U+1F18",
      "U+1F19", "U+1F1A", "U+1F1B", "U+1F1C", "U+1F1D", "U+1F28", "U+1F29",
      "U+1F2A", "U+1F2B", "U+1F2C", "U+1F2D", "U+1F2E", "U+1F2F", "U+1F38",
      "U+1F39", "U+1F3A", "U+1F3B", "U+1F3C", "U+1F3D", "U+1F3E", "U+1F3F",
      "U+1F48", "U+1F49", "U+1F4A", "U+1F4B", "U+1F4C", "U+1F4D", "U+1F59",
      "U+1F5B", "U+1F5D", "U+1F5F", "U+1F68", "U+1F69", "U+1F6A", "U+1F6B",
      "U+1F6C", "U+1F6D", "U+1F6E", "U+1F6F", "U+1FBA", "U+1FBB", "U+1FC8",
      "U+1FC9", "U+1FCA", "U+1FCB", "U+1FDA", "U+1FDB", "U+1FF8", "U+1FF9",
      "U+1FEA", "U+1FEB", "U+1FFA", "U+1FFB", "U+1F88", "U+1F89", "U+1F8A",
      "U+1F8B", "U+1F8C", "U+1F8D", "U+1F8E", "U+1F8F", "U+1F98", "U+1F99",
      "U+1F9A", "U+1F9B", "U+1F9C", "U+1F9D", "U+1F9E", "U+1F9F", "U+1FA8",
      "U+1FA9", "U+1FAA", "U+1FAB", "U+1FAC", "U+1FAD", "U+1FAE", "U+1FAF",
      "U+1FB8", "U+1FB9", "U+1FBC", "U+0399", "U+1FCC", "U+1FD8", "U+1FD9",
      "U+1FE8", "U+1FE9", "U+1FEC", "U+1FFC", "U+2132", "U+2160", "U+2161",
      "U+2162", "U+2163", "U+2164", "U+2165", "U+2166", "U+2167", "U+2168",
      "U+2169", "U+216A", "U+216B", "U+216C", "U+216D", "U+216E", "U+216F",
      "U+2183", "U+24B6", "U+24B7", "U+24B8", "U+24B9", "U+24BA", "U+24BB",
      "U+24BC", "U+24BD", "U+24BE", "U+24BF", "U+24C0", "U+24C1", "U+24C2",
      "U+24C3", "U+24C4", "U+24C5", "U+24C6", "U+24C7", "U+24C8", "U+24C9",
      "U+24CA", "U+24CB", "U+24CC", "U+24CD", "U+24CE", "U+24CF", "U+2C00",
      "U+2C01", "U+2C02", "U+2C03", "U+2C04", "U+2C05", "U+2C06", "U+2C07",
      "U+2C08", "U+2C09", "U+2C0A", "U+2C0B", "U+2C0C", "U+2C0D", "U+2C0E",
      "U+2C0F", "U+2C10", "U+2C11", "U+2C12", "U+2C13", "U+2C14", "U+2C15",
      "U+2C16", "U+2C17", "U+2C18", "U+2C19", "U+2C1A", "U+2C1B", "U+2C1C",
      "U+2C1D", "U+2C1E", "U+2C1F", "U+2C20", "U+2C21", "U+2C22", "U+2C23",
      "U+2C24", "U+2C25", "U+2C26", "U+2C27", "U+2C28", "U+2C29", "U+2C2A",
      "U+2C2B", "U+2C2C", "U+2C2D", "U+2C2E", "U+2C2F", "U+2C60", "U+023A",
      "U+023E", "U+2C67", "U+2C69", "U+2C6B", "U+2C72", "U+2C75", "U+2C80",
      "U+2C82", "U+2C84", "U+2C86", "U+2C88", "U+2C8A", "U+2C8C", "U+2C8E",
      "U+2C90", "U+2C92", "U+2C94", "U+2C96", "U+2C98", "U+2C9A", "U+2C9C",
      "U+2C9E", "U+2CA0", "U+2CA2", "U+2CA4", "U+2CA6", "U+2CA8", "U+2CAA",
      "U+2CAC", "U+2CAE", "U+2CB0", "U+2CB2", "U+2CB4", "U+2CB6", "U+2CB8",
      "U+2CBA", "U+2CBC", "U+2CBE", "U+2CC0", "U+2CC2", "U+2CC4", "U+2CC6",
      "U+2CC8", "U+2CCA", "U+2CCC", "U+2CCE", "U+2CD0", "U+2CD2", "U+2CD4",
      "U+2CD6", "U+2CD8", "U+2CDA", "U+2CDC", "U+2CDE", "U+2CE0", "U+2CE2",
      "U+2CEB", "U+2CED", "U+2CF2", "U+10A0", "U+10A1", "U+10A2", "U+10A3",
      "U+10A4", "U+10A5", "U+10A6", "U+10A7", "U+10A8", "U+10A9", "U+10AA",
      "U+10AB", "U+10AC", "U+10AD", "U+10AE", "U+10AF", "U+10B0", "U+10B1",
      "U+10B2", "U+10B3", "U+10B4", "U+10B5", "U+10B6", "U+10B7", "U+10B8",
      "U+10B9", "U+10BA", "U+10BB", "U+10BC", "U+10BD", "U+10BE", "U+10BF",
      "U+10C0", "U+10C1", "U+10C2", "U+10C3", "U+10C4", "U+10C5", "U+10C7",
      "U+10CD", "U+A640", "U+A642", "U+A644", "U+A646", "U+A648", "U+A64A",
      "U+A64C", "U+A64E", "U+A650", "U+A652", "U+A654", "U+A656", "U+A658",
      "U+A65A", "U+A65C", "U+A65E", "U+A660", "U+A662", "U+A664", "U+A666",
      "U+A668", "U+A66A", "U+A66C", "U+A680", "U+A682", "U+A684", "U+A686",
      "U+A688", "U+A68A", "U+A68C", "U+A68E", "U+A690", "U+A692", "U+A694",
      "U+A696", "U+A698", "U+A69A", "U+A722", "U+A724", "U+A726", "U+A728",
      "U+A72A", "U+A72C", "U+A72E", "U+A732", "U+A734", "U+A736", "U+A738",
      "U+A73A", "U+A73C", "U+A73E", "U+A740", "U+A742", "U+A744", "U+A746",
      "U+A748", "U+A74A", "U+A74C", "U+A74E", "U+A750", "U+A752", "U+A754",
      "U+A756", "U+A758", "U+A75A", "U+A75C", "U+A75E", "U+A760", "U+A762",
      "U+A764", "U+A766", "U+A768", "U+A76A", "U+A76C", "U+A76E", "U+A779",
      "U+A77B", "U+A77E", "U+A780", "U+A782", "U+A784", "U+A786", "U+A78B",
      "U+A790", "U+A792", "U+A7C4", "U+A796", "U+A798", "U+A79A", "U+A79C",
      "U+A79E", "U+A7A0", "U+A7A2", "U+A7A4", "U+A7A6", "U+A7A8", "U+A7B4",
      "U+A7B6", "U+A7B8", "U+A7BA", "U+A7BC", "U+A7BE", "U+A7C0", "U+A7C2",
      "U+A7C7", "U+A7C9", "U+A7D0", "U+A7D6", "U+A7D8", "U+A7F5", "U+A7B3",
      "U+13A0", "U+13A1", "U+13A2", "U+13A3", "U+13A4", "U+13A5", "U+13A6",
      "U+13A7", "U+13A8", "U+13A9", "U+13AA", "U+13AB", "U+13AC", "U+13AD",
      "U+13AE", "U+13AF", "U+13B0", "U+13B1", "U+13B2", "U+13B3", "U+13B4",
      "U+13B5", "U+13B6", "U+13B7", "U+13B8", "U+13B9", "U+13BA", "U+13BB",
      "U+13BC", "U+13BD", "U+13BE", "U+13BF", "U+13C0", "U+13C1", "U+13C2",
      "U+13C3", "U+13C4", "U+13C5", "U+13C6", "U+13C7", "U+13C8", "U+13C9",
      "U+13CA", "U+13CB", "U+13CC", "U+13CD", "U+13CE", "U+13CF", "U+13D0",
      "U+13D1", "U+13D2", "U+13D3", "U+13D4", "U+13D5", "U+13D6", "U+13D7",
      "U+13D8", "U+13D9", "U+13DA", "U+13DB", "U+13DC", "U+13DD", "U+13DE",
      "U+13DF", "U+13E0", "U+13E1", "U+13E2", "U+13E3", "U+13E4", "U+13E5",
      "U+13E6", "U+13E7", "U+13E8", "U+13E9", "U+13EA", "U+13EB", "U+13EC",
      "U+13ED", "U+13EE", "U+13EF", "U+FF21", "U+FF22", "U+FF23", "U+FF24",
      "U+FF25", "U+FF26", "U+FF27", "U+FF28", "U+FF29", "U+FF2A", "U+FF2B",
      "U+FF2C", "U+FF2D", "U+FF2E", "U+FF2F", "U+FF30", "U+FF31", "U+FF32",
      "U+FF33", "U+FF34", "U+FF35", "U+FF36", "U+FF37", "U+FF38", "U+FF39",
      "U+FF3A", "U+10400", "U+10401", "U+10402", "U+10403", "U+10404",
      "U+10405", "U+10406", "U+10407", "U+10408", "U+10409", "U+1040A",
      "U+1040B", "U+1040C", "U+1040D", "U+1040E", "U+1040F", "U+10410",
      "U+10411", "U+10412", "U+10413", "U+10414", "U+10415", "U+10416",
      "U+10417", "U+10418", "U+10419", "U+1041A", "U+1041B", "U+1041C",
      "U+1041D", "U+1041E", "U+1041F", "U+10420", "U+10421", "U+10422",
      "U+10423", "U+10424", "U+10425", "U+10426", "U+10427", "U+104B0",
      "U+104B1", "U+104B2", "U+104B3", "U+104B4", "U+104B5", "U+104B6",
      "U+104B7", "U+104B8", "U+104B9", "U+104BA", "U+104BB", "U+104BC",
      "U+104BD", "U+104BE", "U+104BF", "U+104C0", "U+104C1", "U+104C2",
      "U+104C3", "U+104C4", "U+104C5", "U+104C6", "U+104C7", "U+104C8",
      "U+104C9", "U+104CA", "U+104CB", "U+104CC", "U+104CD", "U+104CE",
      "U+104CF", "U+104D0", "U+104D1", "U+104D2", "U+104D3", "U+10570",
      "U+10571", "U+10572", "U+10573", "U+10574", "U+10575", "U+10576",
      "U+10577", "U+10578", "U+10579", "U+1057A", "U+1057C", "U+1057D",
      "U+1057E", "U+1057F", "U+10580", "U+10581", "U+10582", "U+10583",
      "U+10584", "U+10585", "U+10586", "U+10587", "U+10588", "U+10589",
      "U+1058A", "U+1058C", "U+1058D", "U+1058E", "U+1058F", "U+10590",
      "U+10591", "U+10592", "U+10594", "U+10595", "U+10C80", "U+10C81",
      "U+10C82", "U+10C83", "U+10C84", "U+10C85", "U+10C86", "U+10C87",
      "U+10C88", "U+10C89", "U+10C8A", "U+10C8B", "U+10C8C", "U+10C8D",
      "U+10C8E", "U+10C8F", "U+10C90", "U+10C91", "U+10C92", "U+10C93",
      "U+10C94", "U+10C95", "U+10C96", "U+10C97", "U+10C98", "U+10C99",
      "U+10C9A", "U+10C9B", "U+10C9C", "U+10C9D", "U+10C9E", "U+10C9F",
      "U+10CA0", "U+10CA1", "U+10CA2", "U+10CA3", "U+10CA4", "U+10CA5",
      "U+10CA6", "U+10CA7", "U+10CA8", "U+10CA9", "U+10CAA", "U+10CAB",
      "U+10CAC", "U+10CAD", "U+10CAE", "U+10CAF", "U+10CB0", "U+10CB1",
      "U+10CB2", "U+118A0", "U+118A1", "U+118A2", "U+118A3", "U+118A4",
      "U+118A5", "U+118A6", "U+118A7", "U+118A8", "U+118A9", "U+118AA",
      "U+118AB", "U+118AC", "U+118AD", "U+118AE", "U+118AF", "U+118B0",
      "U+118B1", "U+118B2", "U+118B3", "U+118B4", "U+118B5", "U+118B6",
      "U+118B7", "U+118B8", "U+118B9", "U+118BA", "U+118BB", "U+118BC",
      "U+118BD", "U+118BE", "U+118BF", "U+16E40", "U+16E41", "U+16E42",
      "U+16E43", "U+16E44", "U+16E45", "U+16E46", "U+16E47", "U+16E48",
      "U+16E49", "U+16E4A", "U+16E4B", "U+16E4C", "U+16E4D", "U+16E4E",
      "U+16E4F", "U+16E50", "U+16E51", "U+16E52", "U+16E53", "U+16E54",
      "U+16E55", "U+16E56", "U+16E57", "U+16E58", "U+16E59", "U+16E5A",
      "U+16E5B", "U+16E5C", "U+16E5D", "U+16E5E", "U+16E5F", "U+1E900",
      "U+1E901", "U+1E902", "U+1E903", "U+1E904", "U+1E905", "U+1E906",
      "U+1E907", "U+1E908", "U+1E909", "U+1E90A", "U+1E90B", "U+1E90C",
      "U+1E90D", "U+1E90E", "U+1E90F", "U+1E910", "U+1E911", "U+1E912",
      "U+1E913", "U+1E914", "U+1E915", "U+1E916", "U+1E917", "U+1E918",
      "U+1E919", "U+1E91A", "U+1E91B", "U+1E91C", "U+1E91D", "U+1E91E",
      "U+1E91F", "U+1E920", "U+1E921">>

\* unicode.ToUpper as a function of the code points it changes.
CaseMap ==
    [c \in {LowerCase[k] : k \in 1..Len(LowerCase)} |->
        UpperCase[CHOOSE k \in 1..Len(LowerCase) : LowerCase[k] = c]]

\* strings.ToUpper: every rune by unicode.ToUpper.
ToUpper(s) ==
    [i \in 1..Len(s) |-> IF s[i] \in DOMAIN CaseMap THEN CaseMap[s[i]] ELSE s[i]]

\* strings.Contains
Contains(s, sub) ==
    \E i \in 0..(Len(s) - Len(sub)) : SubSeq(s, i + 1, i + Len(sub)) = sub

WordRDP == <<"R", "D", "P">>
WordREMOTE == <<"R", "E", "M", "O", "T", "E">>
WordVDP == <<"V", "D", "P">>
WordVULNERABILITY == <<"V", "U", "L", "N", "E", "R", "A", "B", "I", "L", "I", "T", "Y">>

ProgramTypeVdpFirst(submissionState, offersBounties) ==
    LET up == ToUpper(submissionState)
    IN  IF Contains(up, WordVDP) \/ Contains(up, WordVULNERABILITY) THEN "VDP"
        ELSE IF Contains(up, WordRDP) \/ Contains(up, WordREMOTE) THEN "RDP"
        ELSE IF offersBounties THEN "RDP"
        ELSE "VDP"

\* "Determine program type (RDP/VDP)"
ProgramType(submissionState, offersBounties) ==
    LET up == ToUpper(submissionState)
    IN  IF Contains(up, WordRDP) \/ Contains(up, WordREMOTE) THEN "RDP"
        ELSE IF Contains(up, WordVDP) \/ Contains(up, WordVULNERABILITY) THEN "VDP"
        ELSE IF offersBounties THEN "RDP"
        ELSE "VDP"

\* Classification texts: up to MaxWords of these words end to end.
StateWords ==
    {<<"r", "d", "p">>, <<"R", "e", "m", "o", "t", "e">>, WordVDP,
     <<"v", "u", "l", "n", "e", "r", "a", "b", "i", "l", "i", "t", "y">>,
     <<"v", "u", "l", "n", "e", "r", "a", "b", "U+0131", "l", "U+0131", "t", "y">>,
     <<"o", "p", "e", "n">>, <<"c", "a", "f", "U+00E9">>, <<" ">>}

RECURSIVE StateTexts(_)
StateTexts(n) ==
    IF n = 0 THEN {<<>>}
    ELSE StateTexts(n - 1) \cup {s \o w : s \in StateTexts(n - 1), w \in StateWords}

NoType ==
    ty = [pc |-> "none", submissionState |-> <<>>, offersBounties |-> FALSE,
          programType |-> "UNKNOWN"]

\* programType := "UNKNOWN"
TypeInit ==
    \E text \in StateTexts(MaxWords), offers \in BOOLEAN :
        ty = [pc |-> "start", submissionState |-> text, offersBounties |-> offers,
              programType |-> "UNKNOWN"]

\* The if/else chain that sets programType.
DeriveType ==
    /\ ty.pc = "start"
    /\ ty' = [ty EXCEPT !.pc = "derived",
                        !.programType = ProgramType(ty.submissionState,
                                                    ty.offersBounties)]
    /\ UNCHANGED nonTypeVars

\* dbProgram := &database.Program{..., ProgramType: programType}; SaveProgram.
StoreType ==
    /\ ty.pc = "derived"
    /\ ty' = [ty EXCEPT !.pc = "stored"]
    /\ UNCHANGED nonTypeVars

TypeNext ==
    \/ DeriveType
    \/ StoreType

-----------------------------------------------------------------------------
(* Scan cycles: main's initial and daily RunScan, GetAllPrograms page by page *)

\* The listing has MaxPages pages; page n holds the one program ProgramAt(n).
\* The store is the tables programs (handle -> last_scanned), domains and
\* status_changes.
EmptyStore == [programs |-> <<>>, domains |-> <<>>, changes |-> <<>>]

\* The two goroutines of main that call RunScan: the one of the initial scan,
\* which calls it once, and the one of the ticker, which calls it at every tick,
\* one call after the other. Nothing keeps a call of the one from running while
\* a call of the other is running.
Runners == {"initial", "ticker"}

\* A goroutine of main outside RunScan: before its call (pc "idle"), or, for the
\* initial scan, gone after it ("exited"). RunScan keeps nothing between calls;
\* `failed` is whether the last call returned an error, which main logs.
RestFrame(pc, failed) ==
    [pc |-> pc, page |-> 0, allPrograms |-> <<>>, pr |-> <<>>, failed |-> failed]

\* Where a goroutine of main is after RunScan returned.
AfterRunScan(g) == IF g = "initial" THEN "exited" ELSE "idle"

\* The time is counted in calls of RunScan: time.Now() is the number of calls
\* started so far. `saves` counts the results CheckDomains has returned, each of
\* them handed to SaveDomain: at most MaxResults in a behaviour.
RestCycles ==
    [store |-> EmptyStore, calls |-> 0, saves |-> 0,
     run |-> [g \in Runners |-> RestFrame("idle", FALSE)]]

NoCycle == cy = [RestCycles EXCEPT !.run = [g \in Runners |-> RestFrame("none", FALSE)]]

CycleInit == cy = RestCycles

\* main calls scanScheduler.RunScan(): url is the first page.
CycleStart(g) ==
    /\ cy.run[g].pc = "idle"
    /\ cy.calls < MaxCycles
    /\ cy' = [cy EXCEPT !.calls = @ + 1,
                        !.run[g] = [RestFrame("fetch", FALSE) EXCEPT !.page = 1]]
    /\ UNCHANGED nonCycleVars

\* The goroutine RunScan starts for a listed program, at the call of
\* processProgram (the semaphore of five never fills with the programs listed).
ListedStart(p) ==
    [pc |-> "program", program |-> p, now |-> 0, scopeDomains |-> <<>>,
     todo |-> <<>>, sd |-> IdleFrame]

ProgramsAfterFailureKept(all) == all

\* GetAllPrograms on a failing page: return nil, err.
ProgramsAfterFailure(all) == <<>>

\* RunScan with the list GetAllPrograms returned: one goroutine per program.
Dispatched(all, failed) ==
    [pc |-> "process", page |-> 0, allPrograms |-> all,
     pr |-> [i \in 1..Len(all) |-> ListedStart(all[i])], failed |-> failed]

\* One turn of the loop of GetAllPrograms: the page is fetched and decoded, or
\* fails (request error, status other than 200, bad JSON). On a failure
\* GetAllPrograms returns the error and RunScan returns it wrapped, to main,
\* which logs it.
FetchPage(g) ==
    /\ cy.run[g].pc = "fetch"
    /\ \E ok \in BOOLEAN :
         LET f == cy.run[g]
             all == Append(f.allPrograms, ProgramAt(f.page))
         IN  cy' = [cy EXCEPT !.run[g] =
                      IF ok
                      THEN IF f.page < MaxPages
                           THEN [f EXCEPT !.allPrograms = all, !.page = f.page + 1]
                           ELSE Dispatched(all, FALSE)
                      ELSE IF Len(ProgramsAfterFailure(f.allPrograms)) = 0
                      THEN RestFrame(AfterRunScan(g), TRUE)
                      ELSE Dispatched(ProgramsAfterFailure(f.allPrograms), TRUE)]
    /\ UNCHANGED nonCycleVars

\* INSERT OR REPLACE INTO programs (handle, ..., last_scanned)
SavedProgram(ps, handle, t) ==
    [h \in DOMAIN ps \cup {handle} |-> IF h = handle THEN t ELSE ps[h]]

\* The goroutine of program i has returned from processProgram.
ListedDone(l) == [l EXCEPT !.pc = "done", !.now = 0, !.scopeDomains = <<>>,
                           !.todo = <<>>, !.sd = IdleFrame]

\* processProgram up to the statement of SaveProgram: the arguments of db.Exec
\* are evaluated, time.Now() among them, before the statement runs.
ListedProgramTime(g, i) ==
    /\ cy.run[g].pc = "process"
    /\ i \in 1..Len(cy.run[g].pr)
    /\ cy.run[g].pr[i].pc = "program"
    /\ cy' = [cy EXCEPT !.run[g].pr[i].pc = "exec",
                        !.run[g].pr[i].now = cy.calls]
    /\ UNCHANGED nonCycleVars

\* The INSERT OR REPLACE of SaveProgram with the arguments evaluated before: on
\* an error processProgram returns the error, which RunScan's goroutine drops.
ListedSaveProgram(g, i) ==
    /\ cy.run[g].pc = "process"
    /\ i \in 1..Len(cy.run[g].pr)
    /\ cy.run[g].pr[i].pc = "exec"
    /\ \E ok \in BOOLEAN :
         LET l == cy.run[g].pr[i]
         IN  cy' = IF ok
                   THEN [cy EXCEPT
                           !.store.programs = SavedProgram(@, l.program.handle, l.now),
                           !.run[g].pr[i].pc = "scope",
                           !.run[g].pr[i].now = 0]
                   ELSE [cy EXCEPT !.run[g].pr[i] = ListedDone(l)]
    /\ UNCHANGED nonCycleVars

\* What GetProgramScope gives for a listed program: nothing (no scope, or an
\* error, which is only logged) or the one identifier "b".
ListedScopes == {<<>>, <<<<"b">>>>}

\* GetProgramScope and the fallback: an empty scope is replaced by the domain
\* attribute of the program, and a program with neither is skipped.
ListedScope(g, i) ==
    /\ cy.run[g].pc = "process"
    /\ i \in 1..Len(cy.run[g].pr)
    /\ cy.run[g].pr[i].pc = "scope"
    /\ \E scope \in ListedScopes :
         LET l == cy.run[g].pr[i]
         IN  cy' = [cy EXCEPT !.run[g].pr[i] =
                      IF scope # <<>>
                      THEN [l EXCEPT !.pc = "check", !.scopeDomains = scope]
                      ELSE IF l.program.domain # <<>>
                      THEN [l EXCEPT !.pc = "check", !.scopeDomains = <<l.program.domain>>]
                      ELSE ListedDone(l)]
    /\ UNCHANGED nonCycleVars

\* What DiscoverDomains gives for a listed program: nothing, or the subdomain "x".
ListedDiscovered == {<<>>, <<LineX>>}

\* DiscoverDomains, the "Deduplicate" loop and CheckDomains: the goroutine
\* touches nothing shared. healthResults holds one result for every final domain,
\* in order; the status of a result is seen by nothing before SaveDomain is called
\* with it, and is drawn there.
ListedCheck(g, i) ==
    /\ cy.run[g].pc = "process"
    /\ i \in 1..Len(cy.run[g].pr)
    /\ cy.run[g].pr[i].pc = "check"
    /\ \E discovered \in ListedDiscovered :
         LET l == cy.run[g].pr[i]
             final == FinalDomains(l.scopeDomains, discovered)
         IN  /\ cy.saves + Len(final) <= MaxResults
             /\ cy' = [cy EXCEPT !.saves = @ + Len(final),
                                 !.run[g].pr[i] =
                         IF final = <<>> THEN ListedDone(l)
                         ELSE [l EXCEPT !.pc = "save", !.scopeDomains = <<>>,
                                        !.todo = final]]
    /\ UNCHANGED nonCycleVars

\* The statuses of the results of CheckDomains: up, down, and unknown for a
\* domain no worker probed.
ResultStatuses == {"up", "down", "unknown"}

\* The SELECT of a SaveDomain call with frame f on the store st.
QueryOf(st, f, ok) ==
    LET id == Lookup(st.domains, f.domain, f.program)
    IN  IF ~ok THEN Returned("err")
        ELSE IF id = 0 THEN [f EXCEPT !.pc = "insert"]
        ELSE [f EXCEPT !.pc = IF st.domains[id].status # f.status
                              THEN "stamp" ELSE "update",
                       !.found = TRUE,
                       !.existingID = id,
                       !.oldStatus = st.domains[id].status]

\* The statement a SaveDomain call with frame f is at, on the store st: the
\* SELECT, the INSERT INTO domains, the INSERT INTO status_changes (its error
\* dropped), the UPDATE; the store and the frame after it. At "stamp" the call
\* evaluates the arguments of the INSERT INTO status_changes, t being time.Now().
StatementOf(st, f, t, ok) ==
    IF f.pc = "query"
    THEN [store |-> st, frame |-> QueryOf(st, f, ok)]
    ELSE IF f.pc = "insert"
    THEN LET r == IF ~ok THEN "err"
                  ELSE IF UniqueOK(st.domains, f.domain, f.program) THEN "nil"
                  ELSE "err_unique"
         IN  [store |-> IF r = "nil"
                        THEN [st EXCEPT !.domains = Append(@, NewDomainRow(f))]
                        ELSE st,
              frame |-> Returned(r)]
    ELSE IF f.pc = "stamp"
    THEN [store |-> st, frame |-> [f EXCEPT !.pc = "change", !.changedAt = t]]
    ELSE IF f.pc = "change"
    THEN [store |-> IF ok
                    THEN [st EXCEPT !.changes = Append(@, NewChangeRow(f, f.changedAt))]
                    ELSE st,
          frame |-> [f EXCEPT !.pc = "update"]]
    ELSE [store |-> IF ok
                    THEN [st EXCEPT !.domains[f.existingID] = UpdatedRow(@, f)]
                    ELSE st,
          frame |-> Returned(IF ok THEN "nil" ELSE "err")]

\* The goroutine of a listed program after a statement of SaveDomain left the
\* frame f: when SaveDomain returned, its error is logged and the loop goes to
\* the next result, or processProgram returns nil.
ListedAfter(l, f) ==
    IF f.pc # "idle" THEN [l EXCEPT !.sd = f]
    ELSE IF Len(l.todo) > 1 THEN [l EXCEPT !.sd = IdleFrame, !.todo = Tail(@)]
    ELSE ListedDone(l)

\* The "Save domains" loop builds &Domain{result.Domain, handle, result.Status,
\* DiscoveredAt: time.Now(), LastChecked: time.Now()} for the next result and
\* calls SaveDomain with it.
ListedSaveDomain(g, i) ==
    /\ cy.run[g].pc = "process"
    /\ i \in 1..Len(cy.run[g].pr)
    /\ cy.run[g].pr[i].pc = "save"
    /\ cy.run[g].pr[i].sd.pc = "idle"
    /\ \E st \in ResultStatuses :
         LET l == cy.run[g].pr[i]
         IN  cy' = [cy EXCEPT !.run[g].pr[i].sd =
                      [IdleFrame EXCEPT !.pc = "query", !.domain = Head(l.todo),
                                        !.program = l.program.handle,
                                        !.status = st, !.now = cy.calls]]
    /\ UNCHANGED nonCycleVars

\* The next statement of the SaveDomain call the goroutine is in.
ListedStatement(g, i) ==
    /\ cy.run[g].pc = "process"
    /\ i \in 1..Len(cy.run[g].pr)
    /\ cy.run[g].pr[i].pc = "save"
    /\ cy.run[g].pr[i].sd.pc \in {"query", "insert", "stamp", "change", "update"}
    /\ \E ok \in BOOLEAN :
         LET l == cy.run[g].pr[i]
             after == StatementOf(cy.store, l.sd, cy.calls, ok)
         IN  cy' = [cy EXCEPT !.store = after.store,
                              !.run[g].pr[i] = ListedAfter(l, after.frame)]
    /\ UNCHANGED nonCycleVars

\* wg.Wait() returned: RunScan returns nil.
CycleEnd(g) ==
    /\ cy.run[g].pc = "process"
    /\ \A i \in 1..Len(cy.run[g].pr) : cy.run[g].pr[i].pc = "done"
    /\ cy' = [cy EXCEPT !.run[g] = RestFrame(AfterRunScan(g), cy.run[g].failed)]
    /\ UNCHANGED nonCycleVars

CycleNext ==
    \/ \E g \in Runners : CycleStart(g)
    \/ \E g \in Runners : FetchPage(g)
    \/ \E g \in Runners, i \in 1..MaxPages : ListedProgramTime(g, i)
    \/ \E g \in Runners, i \in 1..MaxPages : ListedSaveProgram(g, i)
    \/ \E g \in Runners, i \in 1..MaxPages : ListedScope(g, i)
    \/ \E g \in Runners, i \in 1..MaxPages : ListedCheck(g, i)
    \/ \E g \in Runners, i \in 1..MaxPages : ListedSaveDomain(g, i)
    \/ \E g \in Runners, i \in 1..MaxPages : ListedStatement(g, i)
    \/ \E g \in Runners : CycleEnd(g)

-----------------------------------------------------------------------------
(* Specifications *)

\* The scheduler's parts at rest.
NoSchedule == NoScan /\ NoProcess /\ NoClean /\ NoType /\ NoCycle

StoreInit == StoreIdle /\ NoCheck /\ NoDiscover /\ NoSchedule

StoreSpec == StoreInit /\ [][StoreNext]_vars

NotifySpec == StoreInit /\ [][NotifyNext]_vars

StatsSpec == StoreInit /\ [][StatsNext]_vars

CheckSpecInit == CheckInit /\ StoreIdle /\ NoDiscover /\ NoSchedule

CheckSpec == CheckSpecInit /\ [][CheckNext]_vars

\* CheckDomains under the Go scheduler: a goroutine that can take a step is not
\* held back forever; every request ends (the client has a timeout).
\* Whether the call ends does not depend on the names: one list per length,
\* a.com, b.com, a.com, ...
CheckLiveInit ==
    /\ \E k \in 0..MaxDomains :
         cdDomains = [i \in 1..k |-> IF i % 2 = 1 THEN "a.com" ELSE "b.com"]
    /\ cdWorkers \in -1..MaxWorkers
    /\ cdPc = "call"
    /\ ctxDone = FALSE
    /\ domainChan = <<>>
    /\ resultChan = <<>>
    /\ resultClosed = FALSE
    /\ wk = [w \in WorkerIds |-> AbsentWorker]
    /\ resultMap = <<>>
    /\ results = <<>>
    /\ started = {}
    /\ sent = {}
    /\ StoreIdle /\ NoDiscover /\ NoSchedule

CheckLiveSpec == CheckLiveInit /\ [][CheckNext]_vars /\ WF_vars(CheckProgress)

DiscoverSpecInit == DiscoverInit /\ StoreIdle /\ NoCheck /\ NoSchedule

DiscoverSpec == DiscoverSpecInit /\ [][DiscoverNext]_vars

SlotSpecInit == SlotInit /\ StoreIdle /\ NoCheck /\ NoSchedule

SlotSpec == SlotSpecInit /\ [][DiscoverNext]_vars

DeadlineSpecInit == DeadlineInit /\ StoreIdle /\ NoCheck /\ NoSchedule

\* DiscoverDomains when only its calling goroutine is sure to go on: the
\* goroutines it started may be held back for ever (by the tool, the mutex, the
\* semaphore).
DeadlineSpec == DeadlineSpecInit /\ [][DiscoverNext]_vars /\ WF_vars(CallerReturns)

ScanSpecInit ==
    /\ ScanInit /\ StoreIdle /\ NoCheck /\ NoDiscover /\ NoProcess /\ NoClean
    /\ NoType /\ NoCycle

ScanSpec == ScanSpecInit /\ [][ScanNext]_vars

\* RunScan when GetAllPrograms and every processProgram return, under the Go
\* scheduler: a goroutine that can take a step is not held back forever.
ScanLiveSpec == ScanSpecInit /\ [][ScanLiveNext]_vars /\ WF_vars(ScanLiveNext)

ProcessSpecInit ==
    /\ ProcessInit /\ StoreIdle /\ NoCheck /\ NoDiscover /\ NoScan /\ NoClean
    /\ NoType /\ NoCycle

ProcessSpec == ProcessSpecInit /\ [][ProcessNext]_vars

CleanSpecInit ==
    /\ CleanInit /\ StoreIdle /\ NoCheck /\ NoDiscover /\ NoScan /\ NoProcess
    /\ NoType /\ NoCycle

CleanSpec == CleanSpecInit /\ [][CleanNext]_vars

\* Everything but the program type at rest.
TypeSpecInit ==
    /\ TypeInit /\ StoreIdle /\ NoCheck /\ NoDiscover /\ NoScan /\ NoProcess
    /\ NoClean /\ NoCycle

TypeSpec == TypeSpecInit /\ [][TypeNext]_vars

CycleSpecInit ==
    /\ CycleInit /\ StoreIdle /\ NoCheck /\ NoDiscover /\ NoScan /\ NoProcess
    /\ NoClean /\ NoType

CycleSpec == CycleSpecInit /\ [][CycleNext]_vars

-----------------------------------------------------------------------------
(* What SaveDomain does when it runs alone and no statement fails *)

\* A store without row ids and insertion times: the Domain records, and how many
\* StatusChange records there are of each (domain, program, old, new).
Transition(r) ==
    [domain |-> r.domain, program |-> r.program,
     oldStatus |-> r.oldStatus, newStatus |-> r.newStatus]

StoreView(ds, chs) ==
    [domains |-> Range(ds),
     transitions |-> {<<Transition(chs[i]),
                        Cardinality({j \in 1..Len(chs) :
                                       Transition(chs[j]) = Transition(chs[i])})>>
                      : i \in 1..Len(chs)}]

SerialView(st, c1, c2) ==
    LET r == SerialSaveDomain(SerialSaveDomain(st, c1), c2)
    IN  StoreView(r.domains, r.changes)

-----------------------------------------------------------------------------
(* Claims about the store *)

\* C1: after any sequence of SaveDomain calls, sequential or concurrent, over any
\* keys and statuses, the store holds at most one Domain record per
\* (domain, program) pair.
C1_OneRecordPerKey ==
    \A i, j \in 1..Len(domains) :
        (domains[i].domain = domains[j].domain
            /\ domains[i].program = domains[j].program) => i = j

\* Both keys are stored and a concurrent second INSERT of a stored key was refused.
C1_Witness ==
    /\ Len(domains) = Cardinality(Keys)
    /\ \E c \in Callers : sd[c].ret = "err_unique"

\* C2: a SaveDomain call that returns nil has appended a StatusChange if and only
\* if a Domain record existed for the key and its stored status differed from the
\* observed one; the first-ever observation appends none; the appended record
\* carries the stored status as oldStatus and the observed one as newStatus.
C2_TransitionOnly ==
    [][\A c \in Callers :
         /\ (sd[c].pc = "insert" /\ sd'[c].pc = "idle") => changes' = changes
         /\ (sd[c].pc = "update" /\ sd'[c].ret = "nil") =>
                (sd[c].appended <=> (sd[c].found /\ sd[c].oldStatus # sd[c].status))
         /\ (sd[c].pc = "change" /\ sd'[c].appended) =>
                /\ Len(changes') = Len(changes) + 1
                /\ changes'[Len(changes')].oldStatus = domains[sd[c].existingID].status
                /\ changes'[Len(changes')].newStatus = sd[c].status]_vars

\* C3: when two SaveDomain calls run concurrently, no statement fails and both
\* return nil, the Domain records and the StatusChange records they leave are
\* those of one of the two serial orders of the same calls.
C3_SerialOutcome ==
    [][(/\ ~AllIdle
        /\ \A c \in Callers : sd'[c].pc = "idle" /\ sd'[c].ret = "nil"
        /\ batch.clean
        /\ Len(batch.calls) = 2)
       => StoreView(domains', changes')
            \in {SerialView(batch, batch.calls[1], batch.calls[2]),
                 SerialView(batch, batch.calls[2], batch.calls[1])}]_vars

\* C4: when SaveDomain observed a status that differs from the stored one, then at
\* its return the StatusChange was appended if and only if the Domain was updated.
C4_UpdateAndAppendAtomic ==
    [][\A c \in Callers :
         (sd[c].pc = "update" /\ sd'[c].pc = "idle"
             /\ sd[c].oldStatus # sd[c].status)
         => (sd[c].appended <=> sd'[c].ret = "nil")]_vars

\* C5: a Domain record is created with isNew true; a SaveDomain of its key that
\* returns nil leaves isNew false; and no store operation (SaveDomain,
\* MarkDomainsAsOld) sets isNew of a record back to true.
C5_IsNewMonotone ==
    [][/\ \A i \in 1..Len(domains') :
            IF i > Len(domains) THEN domains'[i].isNew
            ELSE ~domains[i].isNew => ~domains'[i].isNew
       /\ \A c \in Callers :
            (sd[c].pc = "update" /\ sd'[c].ret = "nil")
            => ~domains'[sd[c].existingID].isNew]_vars

\* One record was created new and an UPDATE of another call has since written it
\* (isNew false, lastChecked the time of that call), while another is still new.
C5_Witness ==
    \E i, j \in 1..Len(domains) :
        /\ ~domains[i].isNew /\ domains[i].lastChecked # domains[i].discoveredAt
        /\ domains[j].isNew

-----------------------------------------------------------------------------
(* Claims about the prober *)

\* C6: CheckDomains returns exactly one result per requested domain, at the
\* position of that domain and carrying its name, whatever the worker count, the
\* completion order and the moment of cancellation; the result is one a worker
\* produced for that domain, or UNKNOWN when no worker produced one.
C6_OneResultPerDomain ==
    cdPc = "done" =>
        /\ Len(results) = Len(cdDomains)
        /\ \A i \in 1..Len(cdDomains) :
             /\ results[i].Domain = cdDomains[i]
             /\ IF \E r \in sent : r.Domain = cdDomains[i]
                THEN results[i] \in sent
                ELSE results[i].Status = "unknown"

\* Two domains were requested, the batch was cancelled in between: the first has
\* the result of its probe, the second has none.
C6_Witness ==
    /\ cdPc = "done"
    /\ cdDomains = <<"a.com", "b.com">>
    /\ results[1].Status = "up"
    /\ results[2].Status = "unknown"

\* C7: a domain for which CheckDomain was never called, the batch context having
\* been cancelled first, is reported UNKNOWN, never DOWN or UP.
C7_NeverProbedIsUnknown ==
    cdPc = "done" =>
        \A i \in 1..Len(cdDomains) :
            cdDomains[i] \notin started => results[i].Status = "unknown"

\* Workers ran, the batch was cancelled, and a requested domain was never probed
\* while another was.
C7_Witness ==
    /\ cdPc = "done"
    /\ ctxDone
    /\ cdWorkers > 0
    /\ \E i, j \in 1..Len(cdDomains) :
         cdDomains[i] \notin started /\ cdDomains[j] \in started

\* A response with a status code below 500.
Below500(o) == o \in 1..499

\* C8 as stated: HTTPS is attempted first, HTTP only after the HTTPS attempt
\* failed (gave no response), and the domain is UP whenever an attempt received a
\* response with status code below 500.
C8_HttpOnlyAfterHttpsFailed ==
    \A w \in WorkerIds :
        wk[w].pc = "send" =>
            /\ wk[w].https # NotAttempted
            /\ wk[w].http # NotAttempted => wk[w].https = NoResponse
            /\ (Below500(wk[w].https) \/ Below500(wk[w].http)) => wk[w].status = "up"

\* C8 amended: HTTPS is attempted first, HTTP exactly when the HTTPS attempt gave
\* no response or a response with status code 500 or above, and the domain is UP
\* whenever an attempt received a response with status code below 500.
C8_HttpAfterHttpsNotUp ==
    \A w \in WorkerIds :
        wk[w].pc = "send" =>
            /\ wk[w].https # NotAttempted
            /\ wk[w].http # NotAttempted <=> ~Below500(wk[w].https)
            /\ (Below500(wk[w].https) \/ Below500(wk[w].http)) => wk[w].status = "up"

\* HTTPS answered 503, HTTP was then attempted and answered 404: UP.
C8_Witness ==
    \E w \in WorkerIds :
        /\ wk[w].pc = "send"
        /\ wk[w].https = 503
        /\ wk[w].http = 404
        /\ wk[w].status = "up"

\* C9 as stated: a probed domain is DOWN exactly when both attempts failed to
\* produce a response.
C9_DownIffNoResponse ==
    \A w \in WorkerIds :
        wk[w].pc = "send" =>
            (wk[w].status = "down"
                <=> (wk[w].https = NoResponse /\ wk[w].http = NoResponse))

\* C9 amended: a probed domain is DOWN exactly when neither attempt produced a
\* response with status code below 500 (no response, or a 5xx response, each
\* time); otherwise it is UP.
C9_DownIffNoneBelow500 ==
    \A w \in WorkerIds :
        wk[w].pc = "send" =>
            /\ wk[w].status \in {"up", "down"}
            /\ wk[w].status = "down"
                 <=> (~Below500(wk[w].https) /\ ~Below500(wk[w].http))

\* HTTPS answered 503 and HTTP gave no response: DOWN.
C9_Witness ==
    \E w \in WorkerIds :
        /\ wk[w].pc = "send"
        /\ wk[w].https = 503
        /\ wk[w].http = NoResponse
        /\ wk[w].status = "down"

-----------------------------------------------------------------------------
(* Claims about the expansion adapter *)

\* The subdomains in what goroutine i's run of the tool wrote: its lines, trimmed,
\* the empty ones dropped.
Found(i) == {TrimSpace(dw[i].run.output[n]) : n \in 1..Len(dw[i].run.output)} \ {<<>>}

\* The run of the tool succeeded: exit status 0, output read.
Succeeded(i) == dw[i].run.kind = "ok"

\* C10: DiscoverDomains returns a nil error and, when its goroutines all finished
\* before the batch deadline, exactly the subdomains of the domains whose
\* invocation succeeded, the failing domains contributing nothing.
C10_ExactlySucceeded ==
    (ddPc = "returned" /\ joinedBy # "deadline") =>
        /\ ddErr = "nil"
        /\ Range(ddResult) = UNION {Found(i) : i \in {n \in BaseIds : Succeeded(n)}}

-----------------------------------------------------------------------------
(* Claims about the scheduler and the concurrency caps *)

\* The scope domains of the program being processed, normalized, the empty ones
\* dropped.
NormalizedScope ==
    {cleanDomain(pp.scopeDomains[i]) : i \in 1..Len(pp.scopeDomains)} \ {<<>>}

\* processProgram got past the scope fetch and its fallback.
PastScope == pp.pc \in {"check", "save"} \/ (pp.pc = "returned" /\ pp.scopeDomains # <<>>)

\* C11: without the expansion tool DiscoverDomains gives processProgram the empty
\* list and no error, and processProgram completes with nil: the domains it hands
\* to CheckDomains, gets results for and hands to SaveDomain are exactly the
\* normalized scope domains, each once.
C11_ScopeOnlyWithoutTool ==
    (~pp.tool /\ PastScope) =>
        /\ pp.discovered = <<>>
        /\ Range(pp.finalDomains) = NormalizedScope
        /\ Len(pp.finalDomains) = Cardinality(NormalizedScope)
        /\ pp.pc \in {"save", "returned"} =>
             [i \in 1..Len(pp.health) |-> pp.health[i].Domain] = pp.finalDomains
        /\ pp.pc = "returned" =>
             /\ pp.ret = "nil"
             /\ [i \in 1..Len(pp.saves) |-> pp.saves[i].domain] = pp.finalDomains

\* Without the tool: a scope of "*.a" and "b:80" was probed and recorded as "a"
\* and "b".
C11_Witness ==
    /\ pp.pc = "returned"
    /\ ~pp.tool
    /\ pp.scopeDomains = <<Wildcard \o <<"a">>, <<"b", ":", "8", "0">>>>
    /\ [i \in 1..Len(pp.saves) |-> pp.saves[i].domain] = <<<<"a">>, <<"b">>>>

\* C12: RunScan returns a non-nil error exactly when GetAllPrograms failed;
\* whatever processProgram met or returned, RunScan returns nil.
C12_ErrorIffFetchFailed ==
    rsPc = "returned" => (rsRet # "nil" <=> fetchErr # "nil")

\* RunScan returned nil although one processProgram returned the error of
\* SaveProgram and another got a 401 for its scope.
C12_Witness ==
    /\ rsPc = "returned"
    /\ rsRet = "nil"
    /\ \E i, j \in ProgramIds : pg[i].ret = "err" /\ pg[j].scope = "auth"

\* C13: when the program list was fetched, RunScan returns nil and only after
\* processProgram has returned for every program of the list, whatever failed for
\* any of them.
C13_OthersStillProcessed ==
    (rsPc = "returned" /\ fetchErr = "nil") =>
        /\ rsRet = "nil"
        /\ \A i \in 1..Len(programs) : pg[i].pc = "done"

\* The scope fetch of one program failed and it was skipped; two others were
\* processed to the end.
C13_Witness ==
    /\ rsPc = "returned"
    /\ \E i, j, k \in ProgramIds :
         /\ j # k
         /\ pg[i].scope = "auth" /\ pg[i].fate = "skipped"
         /\ pg[j].fate = "completed"
         /\ pg[k].fate = "completed"

\* C14 as stated: once the 2 hours of the scan have passed, RunScan can report
\* success without waiting for the processors that are still running.
C14_ReturnsAtDeadline ==
    (rsPc = "wait" /\ scanCtxDone) => ENABLED RunScanReturn

\* The processProgram executions in progress.
Processing == {i \in ProgramIds : pg[i].pc = "running"}

\* C15: at no time are more than 5 processProgram executions in progress.
C15_AtMostFiveProcessors == Cardinality(Processing) <= 5

\* Six programs: five are being processed, the sixth waits for a slot.
C15_Witness ==
    /\ Cardinality(Processing) = 5
    /\ \E i \in ProgramIds : pg[i].pc = "sem"

\* The probes in flight: workers inside CheckDomain.
InFlight(w) == {i \in WorkerIds : w[i].pc \in {"https", "http"}}

\* The workers that receive from domainChan in this step.
Takers == {w \in WorkerIds : wk[w].pc = "recv" /\ wk'[w].pc # "recv" /\ domainChan # <<>>}

\* C16: within a CheckDomains call no more than s.workers probes are in flight,
\* and a queued domain goes to one worker only: a step takes at most the head of
\* the queue, removes it, and hands it to a single worker.
C16_PoolBoundsProbes ==
    [][cdPc = "collect" =>
         /\ Cardinality(InFlight(wk')) <= (IF cdWorkers > 0 THEN cdWorkers ELSE 0)
         /\ Cardinality(Takers) <= 1
         /\ domainChan' = IF Takers = {} THEN domainChan ELSE Tail(domainChan)
         /\ \A w \in Takers : wk'[w].domain = Head(domainChan)
         /\ \A w \in WorkerIds \ Takers : wk'[w].domain \in {wk[w].domain, ""}]_vars

\* One worker, two domains: the worker probes one while the other is queued.
C16_Witness ==
    /\ cdWorkers = 1
    /\ Len(cdDomains) = 2
    /\ Cardinality(InFlight(wk)) = 1
    /\ Len(domainChan) = 1

\* The goroutines that hold a slot of the semaphore: inside DiscoverSubdomains
\* (waiting for the mutex, running the tool), appending what it returned, or about
\* to give the slot back.
Holders == {i \in BaseIds : dw[i].pc \in {"lock", "run", "append", "release"}}

\* The goroutines inside DiscoverSubdomains: their invocation is in progress.
Invoking == {i \in BaseIds : dw[i].pc \in {"lock", "run"}}

\* C17: within a DiscoverDomains call no more than 3 goroutines are past the
\* semaphore, so no more than 3 invocations are in progress; Service.mu lets one
\* of them run the tool at a time.
C17_AtMostThreeInvocations ==
    /\ Cardinality(Invoking) <= 3
    /\ Cardinality(Holders) <= 3
    /\ semaphore = Cardinality(Holders)
    /\ Cardinality({i \in BaseIds : dw[i].pc = "run"}) <= 1

\* Four base domains: three goroutines hold the slots, the fourth waits.
C17_Witness ==
    /\ Cardinality(Invoking) = 3
    /\ \E i \in BaseIds : dw[i].pc = "sem"

\* C18 as stated: cleanDomain of a string cleanDomain returned is that string.
C18_Idempotent == cl.pc = "twice" => cl.twice = cl.once

\* The five rules of C19, each by what it leaves.
WithoutPrefix(s, pre) ==
    CHOOSE t \in {SubSeq(s, k, Len(s)) : k \in 1..(Len(s) + 1)} :
        IF HasPrefix(s, pre) THEN pre \o t = s ELSE t = s

UpToFirst(s, ch) ==
    CHOOSE t \in {SubSeq(s, 1, k) : k \in 0..Len(s)} :
        /\ \A i \in 1..Len(t) : t[i] # ch
        /\ Len(t) = Len(s) \/ s[Len(t) + 1] = ch

Trimmed(s) ==
    CHOOSE t \in {SubSeq(s, a, b) : a \in 1..(Len(s) + 1), b \in 0..Len(s)} :
        /\ t = <<>> \/ (~IsSpace(t[1]) /\ ~IsSpace(t[Len(t)]))
        /\ \E a \in 1..(Len(s) - Len(t) + 1) :
             /\ SubSeq(s, a, a + Len(t) - 1) = t
             /\ \A i \in (1..(a - 1)) \cup ((a + Len(t))..Len(s)) : IsSpace(s[i])

RulesInOrder(x) ==
    Trimmed(WithoutPrefix(UpToFirst(UpToFirst(
        WithoutPrefix(WithoutPrefix(x, SchemeHttps), SchemeHttp), "/"), ":"), Wildcard))

ExampleHost == <<"E", "x", "a", "m", "p", "l", "e", ".", "c", "o", "m">>

\* C19: cleanDomain strips a leading https://, then a leading http://, cuts at the
\* first "/", cuts at the first ":", strips a leading "*." and trims the white
\* space around what is left, in this order; what it returns is empty when
\* nothing remains, keeps the case of the letters, and for
\* "https://*.Example.com:8080/path" is "Example.com".
C19_RulesInOrder ==
    cl.pc \in {"once", "twice"} =>
        /\ cl.once = RulesInOrder(cl.raw)
        /\ \A i \in 1..Len(cl.once) : \E j \in 1..Len(cl.raw) : cl.once[i] = cl.raw[j]
        /\ cl.raw = ExampleUrl => cl.once = ExampleHost

\* cleanDomain("https://*.Example.com:8080/path") was computed.
C19_Witness ==
    /\ cl.pc = "once"
    /\ cl.raw = ExampleUrl
    /\ cl.once = ExampleHost

\* C20 as stated: a scan in which the scope fetch of a program met an
\* authentication failure is aborted, and RunScan returns an error.
C20_AuthFailureAborts ==
    (rsPc = "returned" /\ \E i \in ProgramIds : pg[i].scope = "auth") => rsRet # "nil"

-----------------------------------------------------------------------------
(* Claims about a program without scope, the program type, the notified flag *)

\* processProgram made no call for the domains of the program: nothing expanded,
\* nothing probed, no SaveDomain.
NothingObserved ==
    /\ pp.discovered = <<>>
    /\ pp.finalDomains = <<>>
    /\ pp.health = <<>>
    /\ pp.saves = <<>>

\* C21: when the fetched scope is empty, processProgram takes the program's domain
\* attribute as the only scope domain if it is not empty; without it
\* processProgram returns nil at once, with nothing expanded, probed or handed to
\* SaveDomain.
C21_FallbackOrSkip ==
    pp.scope = "empty" =>
        IF pp.program.domain # <<>>
        THEN /\ pp.scopeDomains = <<pp.program.domain>>
             /\ pp.pc \in {"discover", "check", "save", "returned"}
             /\ pp.pc = "returned" => pp.ret = "nil"
        ELSE /\ pp.pc = "returned"
             /\ pp.ret = "nil"
             /\ pp.scopeDomains = <<>>
             /\ NothingObserved

\* An empty scope, a program with the domain attribute "a": "a" was probed and
\* handed to SaveDomain.
C21_Witness ==
    /\ pp.scope = "empty"
    /\ pp.pc = "returned"
    /\ pp.scopeDomains = <<pp.program.domain>>
    /\ Len(pp.saves) = 1
    /\ pp.saves[1].domain = <<"a">>

\* C22 as stated: a program whose scope fetch failed is skipped, nothing of it
\* being expanded, probed or recorded.
C22_FailedScopeSkipped ==
    pp.scope \in {"auth", "error"} =>
        /\ pp.pc = "returned"
        /\ pp.ret = "nil"
        /\ NothingObserved

\* A text mentions a word when the word occurs in it, the case of the letters
\* set aside: a letter and its upper-case form are the same letter (the dotless i
\* and the long s have "I" and "S" as theirs).
SameLetter(a, b) ==
    \/ a = b
    \/ a \in DOMAIN CaseMap /\ CaseMap[a] = b
    \/ b \in DOMAIN CaseMap /\ CaseMap[b] = a

Mentions(text, word) ==
    \E i \in 0..(Len(text) - Len(word)) :
        \A k \in 1..Len(word) : SameLetter(text[i + k], word[k])

\* C23: the program type is RDP when the classification text mentions "RDP" or
\* "remote"; otherwise VDP when it mentions "VDP" or "vulnerability"; otherwise
\* RDP when the program offers bounties, else VDP. The stored type is RDP or VDP,
\* never UNKNOWN.
C23_TypeByClassification ==
    ty.pc \in {"derived", "stored"} =>
        /\ ty.programType \in {"RDP", "VDP"}
        /\ ty.programType =
             IF Mentions(ty.submissionState, WordRDP)
                \/ Mentions(ty.submissionState, WordREMOTE) THEN "RDP"
             ELSE IF Mentions(ty.submissionState, WordVDP)
                     \/ Mentions(ty.submissionState, WordVULNERABILITY) THEN "VDP"
             ELSE IF ty.offersBounties THEN "RDP"
             ELSE "VDP"

\* "VDPRemote", no bounties: both tests match and the type stored is RDP.
C23_Witness ==
    /\ ty.pc = "stored"
    /\ ty.submissionState = WordVDP \o <<"R", "e", "m", "o", "t", "e">>
    /\ ~ty.offersBounties
    /\ ty.programType = "RDP"

\* A StatusChange but for its notified flag.
Unflagged(r) == [r EXCEPT !.notified = FALSE]

\* C24: a StatusChange is created with notified = FALSE; a step of SaveDomain
\* leaves the flag of every record as it is; whatever a step changes of the
\* existing records is the flag of one record, from FALSE to TRUE, and a flag
\* never returns to FALSE; marking the record id sets its flag and nothing else,
\* and marking it twice is marking it once.
C24_NotifiedOnlyByMark ==
    [][/\ Len(changes') >= Len(changes)
       /\ \A i \in 1..Len(changes') :
            IF i > Len(changes) THEN ~changes'[i].notified
            ELSE /\ Unflagged(changes'[i]) = Unflagged(changes[i])
                 /\ changes[i].notified => changes'[i].notified
       /\ (sd' # sd \/ domains' # domains) =>
            \A i \in 1..Len(changes) : changes'[i].notified = changes[i].notified
       /\ Cardinality({i \in 1..Len(changes) : changes'[i] # changes[i]}) <= 1
       /\ \A id \in 1..MaxCalls :
            LET once == MarkNotified(changes', id)
            IN  /\ MarkNotified(once, id) = once
                /\ Len(once) = Len(changes')
                /\ \A i \in 1..Len(once) :
                     once[i] = IF i = id THEN [changes'[i] EXCEPT !.notified = TRUE]
                               ELSE changes'[i]]_vars

\* Two status changes: the first was marked, the second, created after the mark,
\* is not notified.
C24_Witness ==
    /\ Len(changes) = 2
    /\ changes[1].notified
    /\ ~changes[2].notified

\* C28: while a call of RunScan fetches the listing none of its programs is
\* processed and its steps leave the store as it is; a call whose listing failed,
\* on any page, returns with no program processed and nothing written, the
\* scheduler keeping nothing else of the call, so that the next RunScan starts as
\* it would have without the failed one.
C28_FailedCycleLeavesStore ==
    /\ [](\A g \in Runners : cy.run[g].pc = "fetch" => cy.run[g].pr = <<>>)
    /\ [][\A g \in Runners :
            /\ (cy.run[g].pc = "fetch" /\ cy'.run[g] # cy.run[g]) =>
                 /\ cy'.store = cy.store
                 /\ cy'.run[g].failed =>
                      cy'.run[g] = RestFrame(AfterRunScan(g), TRUE)
            /\ (cy.run[g].pc = "idle" /\ cy'.run[g].pc = "fetch") =>
                 cy'.run[g] = [RestFrame("fetch", FALSE) EXCEPT !.page = 1]]_vars

\* A call of RunScan failed on its listing after an earlier call had recorded a
\* program and a domain: both are still there.
C28_Witness ==
    /\ cy.calls >= 2
    /\ cy.run["ticker"] = RestFrame("idle", TRUE)
    /\ cy.run["initial"].pc = "exited"
    /\ Len(cy.store.domains) = 1
    /\ DOMAIN cy.store.programs # {}

\* Goroutine i is past DiscoverSubdomains.
Expanded(i) == dw[i].pc \in {"append", "release", "exit", "done"}

\* C25: once the batch deadline has fired the call returns, whatever the
\* goroutines are doing and even if none of them ever takes another step; a
\* goroutine that had not started its run of the tool by then never gets to
\* append and yields nothing, and what a call that returned by the deadline
\* returns comes from the goroutines that found something.
C25_DeadlineBoundsBatch ==
    /\ (ddPc = "wait" /\ discDone) ~> (ddPc = "returned")
    /\ [](ddPc = "returned" /\ joinedBy = "deadline" =>
            Range(ddResult) \subseteq
              UNION {Range(dw[i].subdomains) : i \in {n \in BaseIds : Expanded(n)}})
    /\ [][\A i \in BaseIds :
            (discDone /\ dw[i].pc \in {"sem", "lock", "run"}) =>
               /\ dw'[i].pc # "append"
               /\ dw'[i].subdomains = <<>>
               /\ dw'[i].pc = "release" => dw'[i].run = KilledRun]_vars

\* The call returned by the deadline with what one goroutine had found; another
\* goroutine, whose run started after the deadline, ended with nothing and a third
\* is still waiting for its turn.
C25_Witness ==
    /\ ddPc = "returned"
    /\ joinedBy = "deadline"
    /\ ddResult # <<>>
    /\ \E i, j \in BaseIds :
         /\ dw[i].pc = "done" /\ dw[i].run = KilledRun
         /\ dw[j].pc \in {"sem", "lock"}

\* The lines of what goroutine i's run wrote that are not blank.
NonBlank(i) == {n \in 1..Len(dw[i].run.output) : TrimSpace(dw[i].run.output[n]) # <<>>}

\* C26: without the tool a single-domain expansion yields nothing,
\* DiscoverDomains returns a nil error, and a domain yields the non-blank lines of
\* its run when the run succeeded and nothing after any invocation error.
C26_OnlySuccessContributes ==
    /\ \A run \in ToolRuns : DiscoverSubdomains(FALSE, run).subdomains = <<>>
    /\ ddPc = "returned" => ddErr = "nil"
    /\ \A i \in BaseIds :
         Expanded(i) =>
            /\ Range(dw[i].subdomains) = IF Succeeded(i) THEN Found(i) ELSE {}
            /\ Len(dw[i].subdomains) = IF Succeeded(i) THEN Cardinality(NonBlank(i)) ELSE 0

\* C27: no goroutine is appending to allSubdomains under mu while DiscoverDomains
\* reads it without mu (in CheckDomains the map is written by the collecting
\* goroutine alone, from the channel).
C27_AccumulatorSynchronized ==
    ~(ddPc = "dedupe" /\ \E i \in BaseIds : dw[i].pc = "append")

\* The program of the SaveDomain call of which goroutine c takes a step.
StepProgram(c) == IF sd[c].pc = "idle" THEN sd'[c].program ELSE sd[c].program

\* C29: a step of SaveDomain for (d, p1) leaves the Domain records and the
\* StatusChange records of every other program as they are, what it adds is of
\* p1, and the old status it compares with and records is the one stored for
\* (d, p1).
C29_ProgramsApart ==
    [][\A c \in Callers :
         sd'[c] # sd[c] =>
           /\ Len(domains') >= Len(domains) /\ Len(changes') >= Len(changes)
           /\ \A i \in 1..Len(domains') :
                IF i > Len(domains) THEN domains'[i].program = StepProgram(c)
                ELSE domains[i].program # StepProgram(c) => domains'[i] = domains[i]
           /\ \A i \in 1..Len(changes') :
                IF i > Len(changes)
                THEN /\ changes'[i].program = StepProgram(c)
                     /\ changes'[i].domain = sd[c].domain
                     /\ changes'[i].oldStatus = sd[c].oldStatus
                ELSE changes'[i] = changes[i]
           /\ (sd[c].pc = "query" /\ sd'[c].found) =>
                \E i \in 1..Len(domains) :
                   /\ domains[i].domain = sd'[c].domain
                   /\ domains[i].program = sd'[c].program
                   /\ domains[i].status = sd'[c].oldStatus
                   /\ sd'[c].pc = IF domains[i].status # sd'[c].status
                                  THEN "stamp" ELSE "update"]_vars

\* The domain is stored under both programs; it went down under p1, which is the
\* only transition recorded, and is still up under p2.
C29_Witness ==
    /\ AllIdle
    /\ Len(domains) = 2
    /\ \E i, j \in 1..2 :
         /\ domains[i].program = "p1" /\ domains[i].status = "down"
         /\ domains[j].program = "p2" /\ domains[j].status = "up"
         /\ domains[i].domain = domains[j].domain
    /\ Len(changes) = 1
    /\ changes[1].program = "p1" /\ changes[1].oldStatus = "up"

\* C30: no step changes the discoveredAt (or the key) of a stored record; a
\* SaveDomain that found the stored status equal to the observed one and whose
\* UPDATE succeeds, the stored status being that one, has appended no
\* StatusChange and changes of its record lastChecked, which becomes the time of
\* the call, and isNew, which becomes false, and nothing else in the store.
C30_SameStatusTouchesOnly ==
    [][/\ Len(domains') >= Len(domains)
       /\ \A i \in 1..Len(domains) :
            /\ domains'[i].discoveredAt = domains[i].discoveredAt
            /\ domains'[i].domain = domains[i].domain
            /\ domains'[i].program = domains[i].program
       /\ \A c \in Callers :
            (/\ sd[c].pc = "update" /\ sd'[c].ret = "nil"
             /\ sd[c].oldStatus = sd[c].status
             /\ domains[sd[c].existingID].status = sd[c].status)
            => /\ ~sd[c].appended
               /\ changes' = changes
               /\ domains' = [domains EXCEPT ![sd[c].existingID] =
                                 [@ EXCEPT !.lastChecked = sd[c].now,
                                           !.isNew = FALSE]]]_vars

\* A record was written by a call that found its stored status: it is no longer
\* new and there is no StatusChange. The time of that call is the older one, the
\* call having been made before the record was created by a concurrent one.
C30_Witness ==
    /\ AllIdle
    /\ changes = <<>>
    /\ \A c \in Callers : sd[c].ret = "nil"
    /\ Len(domains) = 1
    /\ ~domains[1].isNew
    /\ domains[1].lastChecked < domains[1].discoveredAt

-----------------------------------------------------------------------------
(* Claims about what one processProgram run probes and records *)

\* The raw strings of the run: the scope domains and the expanded domains.
RawDomains == pp.scopeDomains \o pp.discovered

\* The names in a list of probe results or of SaveDomain calls, in order.
ProbedNames == [i \in 1..Len(pp.health) |-> pp.health[i].Domain]
SavedNames == [i \in 1..Len(pp.saves) |-> pp.saves[i].domain]

\* C31: the list handed to CheckDomains holds every non-empty cleanDomain value of
\* the scope domains and the expanded domains, each once and no empty one; the
\* results are for that list, and at the return SaveDomain has been called once
\* for each entry of it.
C31_OncePerNormalizedIdentity ==
    /\ pp.pc \in {"check", "save"} \/ (pp.pc = "returned" /\ pp.scopeDomains # <<>>) =>
         /\ Range(pp.finalDomains) =
              {cleanDomain(RawDomains[i]) : i \in 1..Len(RawDomains)} \ {<<>>}
         /\ \A i, j \in 1..Len(pp.finalDomains) :
              pp.finalDomains[i] = pp.finalDomains[j] => i = j
    /\ pp.pc = "save" => ProbedNames = pp.finalDomains
    /\ pp.pc = "save" => SavedNames = SubSeq(pp.finalDomains, 1, Len(pp.saves))
    /\ (pp.pc = "returned" /\ pp.scopeDomains # <<>>) => SavedNames = pp.finalDomains

\* Two scope entries, one of them rejected, and two expanded domains, one of them
\* the scope domain again: two observations were handed to SaveDomain.
C31_Witness ==
    /\ pp.pc = "returned"
    /\ Len(pp.scopeDomains) = 2
    /\ \E i \in 1..2 : cleanDomain(pp.scopeDomains[i]) = <<>>
    /\ Len(pp.discovered) = 2
    /\ \E i, j \in 1..4 :
         i # j /\ cleanDomain(RawDomains[i]) = cleanDomain(RawDomains[j])
               /\ RawDomains[i] # RawDomains[j]
    /\ Len(pp.saves) = 2

-----------------------------------------------------------------------------
(* Claims about cancellation of a probe batch *)

\* Worker w is inside CheckDomain.
Probing(w) == wk[w].pc \in {"https", "http"}

\* C32: with the batch context done, a worker that takes a domain from the queue
\* goes to its select and from there returns without calling CheckDomain, and no
\* domain joins those that were probed; a worker that is inside CheckDomain goes
\* on with it (its attempts get no response) and is not stopped.
C32_NoProbeAfterCancel ==
    [][ctxDone =>
         /\ started' = started
         /\ Len(domainChan') < Len(domainChan) =>
              \E w \in WorkerIds : wk[w].pc = "recv" /\ wk'[w].pc = "select"
         /\ \A w \in WorkerIds :
              /\ wk[w].pc = "recv" => wk'[w].pc \in {"recv", "select", "exited"}
              /\ wk[w].pc = "select" => wk'[w].pc \in {"select", "exited"}
              /\ Probing(w) => wk'[w].pc \in {"https", "http", "send"}
              /\ (Probing(w) /\ wk'[w] # wk[w]) =>
                    (wk'[w].https = NoResponse \/ wk'[w].http = NoResponse)]_vars

\* Two domains were requested; the first was probed, the batch was cancelled, and
\* the second was taken from the queue without being probed.
C32_Witness ==
    /\ ctxDone
    /\ Len(cdDomains) = 2
    /\ domainChan = <<>>
    /\ Cardinality(started) = 1
    /\ cdDomains[2] \notin started
    /\ \E w \in WorkerIds : wk[w].pc = "exited"
    /\ \E w \in WorkerIds : Probing(w)

\* C33: a worker that is inside CheckDomain when the batch context is done does
\* not go on to send a result for its domain.
C33_AbandonedProbeSendsNothing ==
    [][\A w \in WorkerIds :
         (ctxDone /\ Probing(w)) => wk'[w].pc # "send"]_vars

-----------------------------------------------------------------------------
(* Claims about failures inside one processProgram run *)

\* C34: whatever SaveDomain returned for the results before it, every result of
\* the batch is handed to SaveDomain, and processProgram returns nil after the
\* last; when the expansion gave nothing, the normalized scope domains are what
\* is probed and recorded.
C34_FailureDoesNotStopOthers ==
    /\ (pp.pc = "returned" /\ pp.scopeDomains # <<>>) =>
          /\ pp.ret = "nil"
          /\ Len(pp.saves) = Len(pp.health)
          /\ \A i \in 1..Len(pp.health) :
               /\ pp.saves[i].domain = pp.health[i].Domain
               /\ pp.saves[i].status = pp.health[i].Status
    /\ pp.pc = "save" => Len(pp.saves) <= Len(pp.health)
    /\ (pp.pc \in {"check", "save", "returned"} /\ pp.scopeDomains # <<>>
          /\ pp.discovered = <<>>) =>
          /\ Range(pp.finalDomains) = NormalizedScope
          /\ pp.pc \in {"save", "returned"} => Len(pp.health) = Cardinality(NormalizedScope)

\* The tool was there and the expansion gave nothing; SaveDomain failed for the
\* first of two results and was called for the second.
C34_Witness ==
    /\ pp.pc = "returned"
    /\ pp.tool
    /\ pp.discovered = <<>>
    /\ Len(pp.saves) = 2
    /\ ~pp.saves[1].ok
    /\ pp.saves[2].ok

-----------------------------------------------------------------------------
(* Claims about blocking between tasks *)

\* C35: a goroutine of DiscoverDomains that has its pool slot can start its run of
\* the tool: it does not wait for the run of another goroutine to end.
C35_SlotHolderRuns ==
    \A i \in BaseIds : dw[i].pc = "lock" => ENABLED LockService(i)

-----------------------------------------------------------------------------
(* Claims about recorded statuses and the chain of status changes *)

\* C36: a SaveDomain call that carries the status UNKNOWN of a skipped probe
\* and returns nil has created the record with status UNKNOWN when the key was
\* never seen, and has overwritten a stored UP or DOWN with UNKNOWN and appended
\* the StatusChange from the stored status to UNKNOWN when the key was stored.
C36_UnknownRecorded ==
    [][\A c \in Callers :
         /\ (sd[c].pc = "insert" /\ sd[c].status = "unknown" /\ sd'[c].ret = "nil") =>
               /\ Len(domains') = Len(domains) + 1
               /\ domains'[Len(domains')].status = "unknown"
         /\ (sd[c].pc = "update" /\ sd[c].status = "unknown" /\ sd'[c].ret = "nil"
               /\ sd[c].oldStatus \in {"up", "down"}) =>
               /\ domains'[sd[c].existingID].status = "unknown"
               /\ \E i \in 1..Len(changes) :
                    /\ changes[i].domain = sd[c].domain
                    /\ changes[i].program = sd[c].program
                    /\ changes[i].oldStatus = sd[c].oldStatus
                    /\ changes[i].newStatus = "unknown"]_vars

\* The StatusChange records of key k, in the order they were appended.
KeyChanges(k) == SelectSeq(changes, LAMBDA r : r.domain = k[1] /\ r.program = k[2])

\* C37: between the calls of one goroutine that observes sequentially, the
\* StatusChange records of every key form a chain: old and new status of a record
\* differ, the old status of a record is the new status of the one before it, and
\* the new status of the last is the stored status of the key.
C37_ChangesFormChain ==
    AllIdle =>
      \A k \in Keys :
         LET cs == KeyChanges(k)
             id == Lookup(domains, k[1], k[2])
         IN  /\ \A n \in 1..Len(cs) :
                  /\ cs[n].oldStatus # cs[n].newStatus
                  /\ n > 1 => cs[n].oldStatus = cs[n - 1].newStatus
             /\ cs # <<>> => (id # 0 /\ domains[id].status = cs[Len(cs)].newStatus)

-----------------------------------------------------------------------------
(* Claims about termination *)

\* C38: CheckDomains returns in the end, for every domain list and every worker
\* count; a worker with a result to send can always send it; resultChan is closed
\* once, with every worker gone, and stays closed; and with a worker count of
\* zero or less every requested domain is returned UNKNOWN.
C38_CheckDomainsTerminates ==
    /\ <>(cdPc = "done")
    /\ [](\A w \in WorkerIds : wk[w].pc = "send" => ENABLED WorkerSend(w))
    /\ [](resultClosed => WgCount = 0)
    /\ []((cdPc = "done" /\ cdWorkers <= 0) =>
            \A i \in 1..Len(cdDomains) : results[i] = Result(cdDomains[i], "unknown"))
    /\ [][resultClosed => resultClosed' /\ ~ENABLED CloseResults]_vars

\* A call with no worker returned both requested domains as UNKNOWN.
C38_Witness ==
    /\ cdPc = "done"
    /\ resultClosed
    /\ cdWorkers <= 0
    /\ Len(results) = 2
    /\ results[1].Status = "unknown" /\ results[2].Status = "unknown"

\* C39: RunScan returns in the end; when the list was fetched it returns nil with
\* processProgram run for every entry, once (a goroutine that is done stays as it
\* is), and no slot held; at every moment the slots taken are those of the
\* goroutines inside processProgram, whatever way the others left it.
C39_RunScanTerminates ==
    /\ <>(rsPc = "returned")
    /\ [](scanSem = Cardinality({i \in ProgramIds : pg[i].pc = "running"}))
    /\ []((rsPc = "returned" /\ fetchErr = "nil") =>
            /\ rsRet = "nil"
            /\ scanSem = 0
            /\ \A i \in ProgramIds :
                 pg[i].pc = IF i <= Len(programs) THEN "done" ELSE "absent")
    /\ [][\A i \in ProgramIds : pg[i].pc = "done" => pg'[i] = pg[i]]_vars

\* More programs than slots: RunScan returned nil after one processProgram
\* returned the error of SaveProgram, one skipped its program and one completed.
C39_Witness ==
    /\ rsPc = "returned"
    /\ rsRet = "nil"
    /\ Len(programs) > ScanSlots
    /\ scanSem = 0
    /\ \E i, j, k \in ProgramIds :
         /\ pg[i].fate = "save_failed"
         /\ pg[j].fate = "skipped"
         /\ pg[k].fate = "completed"

-----------------------------------------------------------------------------
(* Claims about the aggregate counts *)

\* C40: the counts one GetStats call returned are consistent with each other:
\* the up and the down domains together, and the new domains, are no more than
\* the total.
C40_CountsConsistent ==
    gs.ret = "nil" =>
        /\ gs.up + gs.down <= gs.total
        /\ gs.new <= gs.total

=============================================================================
